---- MODULE Spec2Model ----
(***************************************************************************)
(* Event normalization, classification, authorization, dispatch and reply  *)
(* fallback of the bot framework: lib/User.js, lib/UnifiedInteraction.js,  *)
(* lib/Command.js and lib/DiscordBot.js.                                    *)
(*                                                                         *)
(* Strings the code slices, lower-cases or searches are sequences of       *)
(* one-character strings; identifiers the code only compares are strings.  *)
(***************************************************************************)
EXTENDS Integers, Sequences, FiniteSets, TLC

VARIABLES
  commands,         \* DiscordBot.commands: the Command objects, in order
  listeners,        \* the bot's EventEmitter: the listeners, in order of bot.on
  messageCommands,  \* DiscordBot.messageCommands (filled by _listCommands)
  started,          \* _registerListeners has attached _mainListener
  disp,             \* one record per raw event delivered by the gateway
  pin,              \* input of the pure function under check
  pout              \* its result

vars ==
  <<commands, listeners, messageCommands, started, disp, pin, pout>>

----------------------------------------------------------------------------
(* Bounds *)

MaxContentLen == 3

MaxRequiredRoles == 2

MaxEvents == 2

MaxInvalidations == 1

MaxHeaderLen == 2

MaxRoutes == 2

MaxBuilds == 2

MaxItems == 26

----------------------------------------------------------------------------
(* Strings *)

Alphabet ==
  {"!", " ", "p", "b", "B"}

RECURSIVE SeqsUpTo(_, _)
SeqsUpTo(S, n) ==
  IF n = 0 THEN {<<>>}
  ELSE LET shorter == SeqsUpTo(S, n - 1)
       IN  shorter \cup {Append(s, c) : s \in {t \in shorter : Len(t) = n - 1}, c \in S}

Contents ==
  SeqsUpTo(Alphabet, MaxContentLen)

\* String.prototype.toLowerCase, one character
LowerChar(c) ==
  IF c = "B" THEN "b" ELSE IF c = "P" THEN "p" ELSE c

\* String.prototype.toLowerCase
ToLowerCase(s) ==
  [i \in 1..Len(s) |-> LowerChar(s[i])]

\* String.prototype.startsWith
StartsWith(s, p) ==
  /\ Len(p) <= Len(s)
  /\ SubSeq(s, 1, Len(p)) = p

\* String.prototype.includes
Includes(s, sub) ==
  \E i \in 0..(Len(s) - Len(sub)) : SubSeq(s, i + 1, i + Len(sub)) = sub

\* String.prototype.slice(n)
Slice(s, n) ==
  IF n >= Len(s) THEN <<>> ELSE SubSeq(s, n + 1, Len(s))

\* s.split(' ')[0]
SplitFirst(s) ==
  IF \E i \in 1..Len(s) : s[i] = " "
  THEN LET k == CHOOSE i \in 1..Len(s) : s[i] = " " /\ \A j \in 1..(i - 1) : s[j] # " "
       IN  SubSeq(s, 1, k - 1)
  ELSE s

----------------------------------------------------------------------------
(* The platform: the bot's own account, users, roles, guild member cache *)

\* bot.client.user.id
MyId ==
  "me"

\* bot.client.user.username
MyUsername ==
  <<"B">>

\* DiscordBot.prefix: prefix || '!'
Prefix ==
  <<"!">>

UserIds ==
  {"me", "bot2", "u1", "u2"}

\* user.bot of the platform account
UserIsBot(id) ==
  id \in {"me", "bot2"}

NoUser ==
  "none"

NoGuild ==
  "null"

GuildIds ==
  {"g1"}

AllRoles ==
  {[id |-> "r1", name |-> "dj"], [id |-> "r2", name |-> "mod"], [id |-> "r3", name |-> "vip"]}

\* what a descriptor may name in requiredRoles: role names, role ids, unknown text
RoleRefs ==
  {"dj", "mod", "r3", "zz"}

\* a GuildMember: member.user.id and member.roles.cache; present = FALSE is undefined
NoMember ==
  [present |-> FALSE, userId |-> NoUser, roles |-> {}]

Member(id, roles) ==
  [present |-> TRUE, userId |-> id, roles |-> roles]

\* guild.members.cache.get(id): u2 is a member the cache does not hold
CacheGet(guild, id) ==
  CASE id = "u1"   -> Member("u1", {[id |-> "r1", name |-> "dj"]})
    [] id = "me"   -> Member("me", {})
    [] id = "bot2" -> Member("bot2", {})
    [] OTHER       -> NoMember

----------------------------------------------------------------------------
(* lib/User.js *)

\* new User({ member, user, guild }); ok = FALSE: the constructor throws
\* (user.id of undefined, when neither a member nor a user resolves)
NewUser(member, user, guild) ==
  LET m == IF user # NoUser /\ guild # NoGuild THEN CacheGet(guild, user)
           ELSE IF member.present THEN member
           ELSE NoMember
  IN  IF ~m.present
      THEN IF user = NoUser
           THEN [ok |-> FALSE, member |-> NoMember, userId |-> NoUser, isBot |-> FALSE]
           ELSE [ok |-> TRUE, member |-> NoMember, userId |-> user, isBot |-> UserIsBot(user)]
      ELSE [ok |-> TRUE, member |-> m, userId |-> m.userId, isBot |-> UserIsBot(m.userId)]

\* get roles()
UserRoles(u) ==
  IF ~u.member.present THEN {} ELSE u.member.roles

\* hasRole(roleNameOrId)
HasRole(u, roleNameOrId) ==
  \E r \in UserRoles(u) : r.name = roleNameOrId \/ r.id = roleNameOrId

----------------------------------------------------------------------------
(* lib/UnifiedInteraction.js *)

\* The raw platform object, as far as the code reads it.  content, customId and
\* commandName are <<>> when absent: the code reads them through || and &&.
\* isButton, isSelectMenu: "absent" (no such method), "yes", "no" (its result).
\* mentions: "absent", "me" (mentions.users has the bot), "other".
\* optionUser: what options.getUser(name) returns, NoUser for null.
\* partial: interaction.partial.
RawEvent(id, content, customId, isButton, isSelectMenu, commandName, mentions, guild, member, user, author, partial) ==
  [id |-> id, content |-> content, customId |-> customId, isButton |-> isButton,
   isSelectMenu |-> isSelectMenu, commandName |-> commandName, mentions |-> mentions,
   guild |-> guild, member |-> member, user |-> user, author |-> author,
   partial |-> partial, optionUser |-> NoUser]

\* constructor(originalObject, bot)
UnifiedInteraction(o) ==
  [content |-> o.content,
   author |-> NewUser(o.member, IF o.user # NoUser THEN o.user ELSE o.author, o.guild),
   guild |-> o.guild,
   isDM |-> (o.guild = NoGuild),
   commandName |-> o.commandName,
   isSlashCommand |-> (o.commandName # <<>>),
   originalObject |-> o]

\* get isButton()
IsButton(ui) ==
  /\ ui.originalObject.customId # <<>>
  /\ ui.originalObject.isButton = "yes"

\* get buttonId()
ButtonId(ui) ==
  IF IsButton(ui) THEN ui.originalObject.customId ELSE <<>>

\* get isSelectMenu()
IsSelectMenu(ui) ==
  /\ ui.originalObject.customId # <<>>
  /\ ui.originalObject.isSelectMenu = "yes"

\* get selectMenuId()
SelectMenuId(ui) ==
  IF IsSelectMenu(ui) THEN ui.originalObject.customId ELSE <<>>

\* possibleCommand taken as all that follows the prefix
PossibleCommand_NoSplit(ui) ==
  Slice(ui.content, Len(Prefix))

\* possibleCommand of get isMessageCommand()
PossibleCommand(ui) ==
  SplitFirst(Slice(ui.content, Len(Prefix)))

\* isMessageCommand that does not look for the prefix
IsMessageCommand_NoPrefix(ui, msgCmds) ==
  /\ ~ui.isSlashCommand
  /\ ~IsButton(ui)
  /\ PossibleCommand(ui) \in msgCmds

\* get isMessageCommand(); msgCmds is bot.messageCommands
IsMessageCommand(ui, msgCmds) ==
  /\ ~ui.isSlashCommand
  /\ ~IsButton(ui)
  /\ StartsWith(ui.content, Prefix)
  /\ PossibleCommand(ui) \in msgCmds

\* isFromBot reading a property the author does not have
IsFromBot_Undefined(ui) ==
  FALSE

\* get isFromBot()
IsFromBot(ui) ==
  ui.author.isBot

\* get isFromMe()
IsFromMe(ui) ==
  ui.author.userId = MyId

\* get isToMe()
IsToMe(ui) ==
  IF ui.originalObject.mentions = "absent" THEN FALSE
  ELSE ui.originalObject.mentions = "me"

\* get isMentioningMe()
IsMentioningMe(ui) ==
  Includes(ToLowerCase(ui.content), ToLowerCase(MyUsername))

\* An event name `kind:id` is the pair of its leading segment and the rest
EventKey(kind, id) ==
  [kind |-> kind, id |-> id]

NoEventName ==
  EventKey("undefined", <<>>)

\* eventName with the mention case tested before the message-command case
EventName_MentionBeforeCommand(ui, msgCmds) ==
  IF IsButton(ui) THEN EventKey("button", ButtonId(ui))
  ELSE IF IsSelectMenu(ui) THEN EventKey("selectMenu", SelectMenuId(ui))
  ELSE IF ui.isSlashCommand THEN EventKey("slashCommand", ui.commandName)
  ELSE IF IsToMe(ui) \/ IsMentioningMe(ui) THEN EventKey("mention", <<>>)
  ELSE IF IsMessageCommand(ui, msgCmds) THEN EventKey("messageCommand", PossibleCommand(ui))
  ELSE IF ui.isDM THEN EventKey("directMessage", <<>>)
  ELSE EventKey("message", <<>>)

\* eventName with the direct-message case tested before the mention case
EventName_DMBeforeMention(ui, msgCmds) ==
  IF IsButton(ui) THEN EventKey("button", ButtonId(ui))
  ELSE IF IsSelectMenu(ui) THEN EventKey("selectMenu", SelectMenuId(ui))
  ELSE IF ui.isSlashCommand THEN EventKey("slashCommand", ui.commandName)
  ELSE IF IsMessageCommand(ui, msgCmds) THEN EventKey("messageCommand", PossibleCommand(ui))
  ELSE IF ui.isDM THEN EventKey("directMessage", <<>>)
  ELSE IF IsToMe(ui) \/ IsMentioningMe(ui) THEN EventKey("mention", <<>>)
  ELSE EventKey("message", <<>>)

\* eventName without its last case, !isToMe && !isMentioningMe
EventName_NoMessageCase(ui, msgCmds) ==
  IF IsButton(ui) THEN EventKey("button", ButtonId(ui))
  ELSE IF IsSelectMenu(ui) THEN EventKey("selectMenu", SelectMenuId(ui))
  ELSE IF ui.isSlashCommand THEN EventKey("slashCommand", ui.commandName)
  ELSE IF IsMessageCommand(ui, msgCmds) THEN EventKey("messageCommand", PossibleCommand(ui))
  ELSE IF IsToMe(ui) \/ IsMentioningMe(ui) THEN EventKey("mention", <<>>)
  ELSE IF ui.isDM THEN EventKey("directMessage", <<>>)
  ELSE NoEventName

\* get eventName(): switch (true), first case that is true
EventName(ui, msgCmds) ==
  IF IsButton(ui) THEN EventKey("button", ButtonId(ui))
  ELSE IF IsSelectMenu(ui) THEN EventKey("selectMenu", SelectMenuId(ui))
  ELSE IF ui.isSlashCommand THEN EventKey("slashCommand", ui.commandName)
  ELSE IF IsMessageCommand(ui, msgCmds) THEN EventKey("messageCommand", PossibleCommand(ui))
  ELSE IF IsToMe(ui) \/ IsMentioningMe(ui) THEN EventKey("mention", <<>>)
  ELSE IF ui.isDM THEN EventKey("directMessage", <<>>)
  ELSE IF ~IsToMe(ui) /\ ~IsMentioningMe(ui) THEN EventKey("message", <<>>)
  ELSE NoEventName

\* the interaction after eventName was read, had isSlashCommand been derived
\* from commandName
AfterEventName_SlashFromName(ui, msgCmds) ==
  IF ~IsButton(ui) /\ ~IsSelectMenu(ui) /\ ~ui.isSlashCommand /\ IsMessageCommand(ui, msgCmds)
  THEN [ui EXCEPT !.commandName = PossibleCommand(ui), !.isSlashCommand = TRUE]
  ELSE ui

\* the interaction after eventName was read: the switch evaluates the getter
\* isMessageCommand when the three cases before it are false, and the getter
\* assigns commandName when it returns true
AfterEventName(ui, msgCmds) ==
  IF ~IsButton(ui) /\ ~IsSelectMenu(ui) /\ ~ui.isSlashCommand /\ IsMessageCommand(ui, msgCmds)
  THEN [ui EXCEPT !.commandName = PossibleCommand(ui)]
  ELSE ui

----------------------------------------------------------------------------
(* lib/Command.js: authorization *)

\* rolesFound of _checkRequiredRoles: the required roles the author has, in order
RECURSIVE RolesFound(_, _)
RolesFound(requiredRoles, author) ==
  IF requiredRoles = <<>> THEN <<>>
  ELSE LET rest == RolesFound(Tail(requiredRoles), author)
       IN  IF HasRole(author, Head(requiredRoles))
           THEN <<Head(requiredRoles)>> \o rest
           ELSE rest

\* _checkRequiredRoles that ignores requireAllRoles
CheckRequiredRoles_AnyOnly(requiredRoles, requireAllRoles, author) ==
  IF Len(requiredRoles) > 0
  THEN Len(RolesFound(requiredRoles, author)) > 0
  ELSE TRUE

\* _checkRequiredRoles(interaction)
CheckRequiredRoles(requiredRoles, requireAllRoles, author) ==
  IF Len(requiredRoles) > 0
  THEN IF requireAllRoles
       THEN Len(RolesFound(requiredRoles, author)) = Len(requiredRoles)
       ELSE Len(RolesFound(requiredRoles, author)) > 0
  ELSE TRUE

----------------------------------------------------------------------------
(* lib/Command.js: the descriptor and its listeners *)

HandlerNames ==
  {"commandHandler", "buttonsHandler", "selectMenusHandler",
   "mentionHandler", "messageHandler", "dmHandler"}

OptionTypes ==
  {"attachment", "boolean", "channel", "integer", "number", "decimal",
   "mentionable", "string", "member", "user", "role"}

\* The command definitions the application supplies, in the order addCommand
\* receives them.  handlers: the handler properties that are functions.
Definitions ==
  << [name |-> <<"P">>, description |-> "gated", 
      handlers |-> HandlerNames,
      isSlashCommand |-> TRUE, isMessageCommand |-> TRUE,
      requiredRoles |-> <<"dj", "r3">>, requireAllRoles |-> FALSE,
      requiredRolesErrorMessage |-> "no-dj",
      options |-> <<"user">>,
      buttonsHandheld |-> << <<"s">> >>, selectMenusHandheld |-> << <<"m">> >>],
     [name |-> <<"b">>, description |-> "open",
      handlers |-> {"commandHandler", "messageHandler"},
      isSlashCommand |-> FALSE, isMessageCommand |-> TRUE,
      requiredRoles |-> <<>>, requireAllRoles |-> FALSE,
      requiredRolesErrorMessage |-> "You do not have the required roles to use this command.",
      options |-> <<>>,
      buttonsHandheld |-> << <<"x">> >>, selectMenusHandheld |-> <<>>] >>

\* _check() that throws on a missing name only
CheckThrows_NameOnly(def) ==
  def.name = <<>>

\* _check(): the throw of a missing name or description
CheckThrows(def) ==
  def.name = <<>> \/ def.description = ""

\* _check() that leaves buttonsHandheld as declared
CheckedButtons_Kept(def) ==
  def.buttonsHandheld

\* _check(): buttonsHandheld, emptied when there is no buttonsHandler
CheckedButtons(def) ==
  IF Len(def.buttonsHandheld) > 0 /\ "buttonsHandler" \notin def.handlers
  THEN <<>> ELSE def.buttonsHandheld

\* _check(): selectMenusHandheld, emptied when there is no selectMenusHandler
CheckedSelectMenus(def) ==
  IF Len(def.selectMenusHandheld) > 0 /\ "selectMenusHandler" \notin def.handlers
  THEN <<>> ELSE def.selectMenusHandheld

\* _addOptions(): the throw of an unknown option type, for slash commands only
AddOptionsThrows(def) ==
  /\ def.isSlashCommand
  /\ \E i \in 1..Len(def.options) : def.options[i] \notin OptionTypes

\* the fields of the Command object the constructor sets
CommandOf(def) ==
  [name |-> ToLowerCase(def.name), description |-> def.description,
   handlers |-> def.handlers,
   isSlashCommand |-> def.isSlashCommand, isMessageCommand |-> def.isMessageCommand,
   requiredRoles |-> def.requiredRoles, requireAllRoles |-> def.requireAllRoles,
   requiredRolesErrorMessage |-> def.requiredRolesErrorMessage,
   options |-> def.options,
   buttonsHandheld |-> CheckedButtons(def),
   selectMenusHandheld |-> CheckedSelectMenus(def)]

\* one bot.on(key, listener) of _listen: the key, the command (its index in
\* bot.commands), the handler the listener wraps and the wrapper's eventType
Listener(key, cmd, handler, ltype) ==
  [key |-> key, cmd |-> cmd, handler |-> handler, ltype |-> ltype]

\* _listen() whose button listeners call the commandHandler
ListenersOf_ButtonsToCommand(c, k) ==
  [i \in 1..Len(c.buttonsHandheld) |->
     Listener(EventKey("button", c.buttonsHandheld[i]), k, "commandHandler", "Message Command")]
  \o
  [i \in 1..Len(c.selectMenusHandheld) |->
     Listener(EventKey("selectMenu", c.selectMenusHandheld[i]), k, "selectMenusHandler", "Select menu handler")]
  \o
  (IF c.isSlashCommand
   THEN <<Listener(EventKey("slashCommand", c.name), k, "commandHandler", "Slash Command")>>
   ELSE <<>>)
  \o
  (IF c.isMessageCommand
   THEN <<Listener(EventKey("messageCommand", c.name), k, "commandHandler", "Message Command")>>
   ELSE <<>>)
  \o
  (IF "messageHandler" \in c.handlers
   THEN <<Listener(EventKey("message", <<>>), k, "messageHandler", "Message Handler")>>
   ELSE <<>>)
  \o
  (IF "mentionHandler" \in c.handlers
   THEN <<Listener(EventKey("mention", <<>>), k, "mentionHandler", "Mention Handler")>>
   ELSE <<>>)
  \o
  (IF "dmHandler" \in c.handlers
   THEN <<Listener(EventKey("directMessage", <<>>), k, "dmHandler", "DM Handler")>>
   ELSE <<>>)

\* _listen(): the listeners of command c, the k-th of bot.commands, in order
ListenersOf(c, k) ==
  [i \in 1..Len(c.buttonsHandheld) |->
     Listener(EventKey("button", c.buttonsHandheld[i]), k, "buttonsHandler", "Button handler")]
  \o
  [i \in 1..Len(c.selectMenusHandheld) |->
     Listener(EventKey("selectMenu", c.selectMenusHandheld[i]), k, "selectMenusHandler", "Select menu handler")]
  \o
  (IF c.isSlashCommand
   THEN <<Listener(EventKey("slashCommand", c.name), k, "commandHandler", "Slash Command")>>
   ELSE <<>>)
  \o
  (IF c.isMessageCommand
   THEN <<Listener(EventKey("messageCommand", c.name), k, "commandHandler", "Message Command")>>
   ELSE <<>>)
  \o
  (IF "messageHandler" \in c.handlers
   THEN <<Listener(EventKey("message", <<>>), k, "messageHandler", "Message Handler")>>
   ELSE <<>>)
  \o
  (IF "mentionHandler" \in c.handlers
   THEN <<Listener(EventKey("mention", <<>>), k, "mentionHandler", "Mention Handler")>>
   ELSE <<>>)
  \o
  (IF "dmHandler" \in c.handlers
   THEN <<Listener(EventKey("directMessage", <<>>), k, "dmHandler", "DM Handler")>>
   ELSE <<>>)

\* _listCommands(): the names added to bot.messageCommands
ListedMessageCommands(cmds) ==
  {cmds[k].name : k \in {j \in 1..Len(cmds) : cmds[j].isMessageCommand}}

\* DiscordBot.addCommand(commandDefinition): new Command({...}) runs _check,
\* _addOptions and _listen, and the Command is pushed on bot.commands.  A throw
\* of the constructor leaves the bot as it was.
AddCommand ==
  /\ ~started
  /\ Len(commands) < Len(Definitions)
  /\ LET def == Definitions[Len(commands) + 1]
         c   == CommandOf(def)
     IN  /\ ~CheckThrows(def)
         /\ ~AddOptionsThrows(def)
         /\ commands' = Append(commands, c)
         /\ listeners' = listeners \o ListenersOf(c, Len(commands) + 1)
  /\ UNCHANGED <<messageCommands, started, disp, pin, pout>>

\* DiscordBot.start(): _listCommands() and _registerListeners()
Start ==
  /\ ~started
  /\ messageCommands' = messageCommands \cup ListedMessageCommands(commands)
  /\ started' = TRUE
  /\ UNCHANGED <<commands, listeners, disp, pin, pout>>

----------------------------------------------------------------------------
(* lib/UnifiedInteraction.js: reply *)

\* no reply operation
NoReply ==
  [purpose |-> "none", content |-> "", ephemeral |-> FALSE,
   pc |-> "none", repliedWith |-> "none", attempts |-> <<>>]

\* reply({ content, ephemeral }) up to its first await: repliedWith = 'none' and
\* originalObject.reply is called.  pc is the platform call awaited; attempts are
\* the calls that have settled, with their outcome.
NewReply(purpose, content, ephemeral) ==
  [purpose |-> purpose, content |-> content, ephemeral |-> ephemeral,
   pc |-> "reply", repliedWith |-> "none", attempts |-> <<>>]

\* repliedWith after the call of `stage` settled: only the try block of the
\* direct reply assigns it
RepliedWithAfter(stage, ok, repliedWith) ==
  IF stage = "reply" /\ ok THEN "reply" ELSE repliedWith

\* a reply() that went on to editReply and followUp whatever repliedWith holds
ReplyNextPc_AllThree(stage, repliedWith) ==
  CASE stage = "reply"     -> "editReply"
    [] stage = "editReply" -> "followUp"
    [] OTHER               -> IF repliedWith = "none" THEN "threw" ELSE "resolved"

\* where reply() goes after the call of `stage` settled: the next
\* if (repliedWith === 'none') block, or the final throw / return
ReplyNextPc(stage, repliedWith) ==
  IF repliedWith = "none"
  THEN CASE stage = "reply"     -> "editReply"
         [] stage = "editReply" -> "followUp"
         [] OTHER               -> "threw"
  ELSE "resolved"

\* reply() resumed after the awaited platform call settled with outcome ok
ReplyResume(op, ok) ==
  LET rw == RepliedWithAfter(op.pc, ok, op.repliedWith)
  IN  [op EXCEPT !.repliedWith = rw,
                 !.attempts = Append(@, [call |-> op.pc, ok |-> ok]),
                 !.pc = ReplyNextPc(op.pc, rw)]

ReplyInFlight(op) ==
  op.pc \in {"reply", "editReply", "followUp"}

----------------------------------------------------------------------------
(* lib/Command.js: the listeners *)

GenericError ==
  "An error occurred while executing the command"

\* what a handler supplied by the application may do when it is called:
\* return, throw, return a promise that settles later, or await
\* interaction.reply and return its promise
HandlerBehaviours ==
  {"return", "throw", "pending", "reply"}

\* _injectOptions(interaction): new User({ user: getUser(name), guild }) throws
\* when the option has no value
InjectOptionsThrows(c, ui) ==
  \E i \in 1..Len(c.options) :
    /\ c.options[i] \in {"member", "user"}
    /\ ~NewUser(NoMember, ui.originalObject.optionUser, ui.originalObject.guild).ok

\* what one listener left behind: h is the handler's state ("none": not
\* called), rep the reply operation the listener or its handler started
Task(l, allowed, h, rep, log) ==
  [cmd |-> l.cmd, ltype |-> l.ltype, allowed |-> allowed, h |-> h, rep |-> rep, log |-> log]

\* _listenerWrapper with a handler that is called whatever the role check says
ListenerWrapper_NoGate(l, c, ui, beh) ==
  Task(l, CheckRequiredRoles(c.requiredRoles, c.requireAllRoles, ui.author),
       "returned", NoReply, {"info:triggered"})

\* _listenerWrapper(eventType, interaction, handler, comment)
ListenerWrapper(l, c, ui, beh) ==
  IF ~CheckRequiredRoles(c.requiredRoles, c.requireAllRoles, ui.author)
  THEN Task(l, FALSE, "none", NewReply("denial", c.requiredRolesErrorMessage, TRUE),
            {"info:triggered"})
  ELSE IF beh = "throw" \/ l.handler \notin c.handlers
  THEN Task(l, TRUE, "threw", NewReply("error", GenericError, TRUE),
            {"info:triggered", "error:handler", "error:interaction"})
  ELSE IF beh = "return"
  THEN Task(l, TRUE, "returned", NoReply, {"info:triggered"})
  ELSE IF beh = "pending"
  THEN Task(l, TRUE, "pending", NoReply, {"info:triggered"})
  ELSE Task(l, TRUE, "pending", NewReply("handler", "pong", FALSE), {"info:triggered"})

\* the slash-command listener, had it called _listenerWrapper before
\* _injectOptions
RunListener_WrapperFirst(l, ui, beh) ==
  LET c == commands[l.cmd]
  IN  IF l.ltype = "Slash Command" /\ InjectOptionsThrows(c, ui)
           /\ CheckRequiredRoles(c.requiredRoles, c.requireAllRoles, ui.author)
      THEN [threw |-> TRUE, tasks |-> <<>>]
      ELSE [threw |-> FALSE, tasks |-> <<ListenerWrapper(l, c, ui, beh)>>]

\* the listener bot.on registered: the slash-command listener calls
\* _injectOptions first; threw: the listener throws synchronously.  The guild
\* and the channel of a guild event, which the log comment reads, are present.
RunListener(l, ui, beh) ==
  LET c == commands[l.cmd]
  IN  IF l.ltype = "Slash Command" /\ InjectOptionsThrows(c, ui)
      THEN [threw |-> TRUE, tasks |-> <<>>]
      ELSE [threw |-> FALSE, tasks |-> <<ListenerWrapper(l, c, ui, beh)>>]

\* an emit that ran every registered listener, whatever its key
Matching_All(ls, key) ==
  ls

\* the listeners registered under key, in order of registration
RECURSIVE Matching(_, _)
Matching(ls, key) ==
  IF ls = <<>> THEN <<>>
  ELSE IF Head(ls).key = key THEN <<Head(ls)>> \o Matching(Tail(ls), key)
  ELSE Matching(Tail(ls), key)

\* an emit that removed the listeners it called from the emitter
ListenersAfterEmit_Removed(ls, key) ==
  SelectSeq(ls, LAMBDA l : l.key # key)

\* bot.on: a listener stays registered after an event was emitted to it
ListenersAfterEmit_Once(ls, key) ==
  IF ls = <<>> THEN <<>>
  ELSE [i \in 1..Len(ls) |-> IF ls[i].key = key THEN [ls[i] EXCEPT !.key = NoEventName] ELSE ls[i]]

ListenersAfterEmit(ls, key) ==
  ls

\* EventEmitter.emit(eventName, interactionObject): the listeners run in order;
\* a listener that throws ends the emit
RECURSIVE EmitTo(_, _, _, _)
EmitTo(ls, ui, behs, i) ==
  IF i > Len(ls) THEN [threw |-> FALSE, tasks |-> <<>>]
  ELSE LET r == RunListener(ls[i], ui, behs[i])
       IN  IF r.threw THEN r
           ELSE LET rest == EmitTo(ls, ui, behs, i + 1)
                IN  [threw |-> rest.threw, tasks |-> r.tasks \o rest.tasks]

----------------------------------------------------------------------------
(* lib/DiscordBot.js: the dispatcher *)

\* _handleInteraction emitting the event name alone
Emitted_KeyOnly(key) ==
  <<key>>

\* the events _handleInteraction emits for the event name, in order:
\* `external:${eventName.split(':')[0]}`, then eventName
Emitted(key) ==
  <<EventKey("external", <<key.kind>>), key>>

\* _handleInteraction from the construction of the UnifiedInteraction to its
\* return or throw.  o is the object normalized; behs what the handlers do.
HandleInteraction(o, behs) ==
  LET ui  == UnifiedInteraction(o)
      key == EventName(ui, messageCommands)
      none == [threw |-> FALSE, err |-> "none", normalized |-> TRUE, key |-> NoEventName,
               emitted |-> <<>>, tasks |-> <<>>, log |-> {}]
  IN  IF ~ui.author.ok
      THEN [none EXCEPT !.threw = TRUE, !.err = "identity", !.normalized = FALSE]
      ELSE IF IsFromBot(ui)
      THEN IF IsFromMe(ui) THEN none
           ELSE [none EXCEPT !.log = {"info:ignoring-bot"}]
      ELSE IF key # NoEventName
      THEN LET r == EmitTo(Matching(listeners, key), ui, behs, 1)
           IN  [threw |-> r.threw, err |-> IF r.threw THEN "listener" ELSE "none",
                normalized |-> TRUE, key |-> key,
                emitted |-> Emitted(key),
                tasks |-> r.tasks, log |-> {"info:received"}]
      ELSE [none EXCEPT !.log = {"info:ignoring"}]

\* how many handlers the dispatch of o may call
HandlerCount(o) ==
  LET ui == UnifiedInteraction(o)
  IN  IF ~ui.author.ok \/ IsFromBot(ui) THEN 0
      ELSE Len(Matching(listeners, EventName(ui, messageCommands)))

\* _mainListener after _handleInteraction settled with result r: on a throw the
\* catch block logs and calls interaction.reply({ content: errorContent }) on
\* the raw object.  main: "done" (returned), "errorReply" (awaiting that reply),
\* "rejected" (the promise of _mainListener rejected).
Settled(raw, r) ==
  [raw |-> raw, main |-> IF r.threw THEN "errorReply" ELSE "done",
   err |-> r.err, normalized |-> r.normalized, key |-> r.key, emitted |-> r.emitted,
   tasks |-> r.tasks,
   log |-> IF r.threw THEN r.log \cup {"error:main"} ELSE r.log]

\* _mainListener awaiting interaction.fetch() of a partial object
Fetching(raw) ==
  [raw |-> raw, main |-> "fetch", err |-> "none", normalized |-> FALSE,
   key |-> NoEventName, emitted |-> <<>>, tasks |-> <<>>, log |-> {}]

\* a dispatch with nothing left to run
Terminal(d) ==
  /\ d.main \in {"done", "rejected"}
  /\ \A t \in 1..Len(d.tasks) : d.tasks[t].h # "pending" /\ ~ReplyInFlight(d.tasks[t].rep)

----------------------------------------------------------------------------
(* Harness of the pure functions: classification *)

NotComputed ==
  [done |-> FALSE]

ClassifyInputs ==
  [raw : {RawEvent("i1", c, cid, b, s, cn, m, g, NoMember, "u1", NoUser, FALSE) :
            c \in Contents, cid \in {<<>>, <<"s">>},
            b \in {"absent", "yes", "no"}, s \in {"absent", "yes", "no"},
            cn \in {<<>>, <<"p">>}, m \in {"absent", "me", "other"},
            g \in {NoGuild} \cup GuildIds},
   msgCmds : SUBSET {<<"p">>, <<"b">>}]

IdleRegistry ==
  /\ commands = <<>>
  /\ listeners = <<>>
  /\ messageCommands = {}
  /\ started = FALSE
  /\ disp = <<>>

InitClassify ==
  /\ IdleRegistry
  /\ pin \in ClassifyInputs
  /\ pout = NotComputed

\* const { eventName } = interactionObject
Classify ==
  /\ ~pout.done
  /\ pout' = [done |-> TRUE, value |-> EventName(UnifiedInteraction(pin.raw), pin.msgCmds)]
  /\ UNCHANGED <<commands, listeners, messageCommands, started, disp, pin>>

NextClassify ==
  Classify

SpecClassify ==
  InitClassify /\ [][NextClassify]_vars

----------------------------------------------------------------------------
(* Harness of the pure functions: authorization *)

AuthInputs ==
  [requiredRoles : SeqsUpTo(RoleRefs, MaxRequiredRoles),
   requireAllRoles : BOOLEAN,
   author : {NewUser(Member("u2", rs), NoUser, NoGuild) : rs \in SUBSET AllRoles}
              \cup {NewUser(NoMember, "u2", NoGuild)}]

InitAuth ==
  /\ IdleRegistry
  /\ pin \in AuthInputs
  /\ pout = NotComputed

\* this._checkRequiredRoles(interaction)
Authorize ==
  /\ ~pout.done
  /\ pout' = [done |-> TRUE,
              value |-> CheckRequiredRoles(pin.requiredRoles, pin.requireAllRoles, pin.author)]
  /\ UNCHANGED <<commands, listeners, messageCommands, started, disp, pin>>

NextAuth ==
  Authorize

SpecAuth ==
  InitAuth /\ [][NextAuth]_vars

----------------------------------------------------------------------------
(* The gateway: the raw events it delivers *)

DjRole ==
  [id |-> "r1", name |-> "dj"]

\* a message of messageCreate: content, mentions, guild, member and author
Message(id, content, mentions, guild, author) ==
  RawEvent(id, content, <<>>, "absent", "absent", <<>>, mentions, guild,
           IF guild = NoGuild \/ author = NoUser THEN NoMember ELSE CacheGet(guild, author),
           NoUser, author, FALSE)

\* an interaction of interactionCreate: customId or commandName, guild, member, user
Interaction(id, customId, isButton, isSelectMenu, commandName, guild, user, optionUser) ==
  [RawEvent(id, <<>>, customId, isButton, isSelectMenu, commandName, "absent", guild,
            IF guild = NoGuild THEN NoMember ELSE Member(user, {DjRole}),
            user, NoUser, FALSE)
   EXCEPT !.optionUser = optionUser]

\* a partial object: it lacks the content and the author until it is fetched
Partial(id) ==
  [Message(id, <<>>, "absent", "g1", NoUser) EXCEPT !.partial = TRUE]

FullEvents ==
  { Interaction("btn1", <<"s">>, "yes", "no", <<>>, "g1", "u1", NoUser),
    Interaction("btn2", <<"s">>, "yes", "no", <<>>, "g1", "u2", NoUser),
    Interaction("btnx", <<"x">>, "yes", "no", <<>>, "g1", "u1", NoUser),
    Interaction("sel1", <<"m">>, "no", "yes", <<>>, "g1", "u1", NoUser),
    Interaction("sel2", <<"m">>, "no", "yes", <<>>, "g1", "u2", NoUser),
    Interaction("sl1", <<>>, "no", "no", <<"p">>, "g1", "u1", "u2"),
    Interaction("sl2", <<>>, "no", "no", <<"p">>, NoGuild, "u2", "u1"),
    Interaction("sl3", <<>>, "no", "no", <<"p">>, "g1", "u1", NoUser),
    Interaction("sl4", <<>>, "no", "no", <<"p">>, NoGuild, "u2", NoUser),
    Interaction("slb", <<>>, "no", "no", <<"p">>, "g1", "bot2", NoUser),
    Message("mc1", <<"!", "p">>, "other", "g1", "u1"),
    Message("mc2", <<"!", "p", " ">>, "absent", "g1", "u2"),
    Message("mcb", <<"!", "b">>, "other", "g1", "u2"),
    Message("mn1", <<"p", "B">>, "other", "g1", "u1"),
    Message("mn2", <<"p">>, "me", "g1", "u2"),
    Message("dm1", <<"p">>, "other", NoGuild, "u1"),
    Message("ms1", <<"p">>, "other", "g1", "u1"),
    Message("ms2", <<"!">>, "other", "g1", "u2"),
    Message("bot", <<"!", "p">>, "other", "g1", "bot2"),
    Message("self", <<"!", "p">>, "other", "g1", "me"),
    Message("anon", <<"!", "p">>, "other", "g1", NoUser),
    Message("part", <<"!", "p">>, "other", "g1", "u1"),
    Message("pself", <<"p">>, "other", "g1", "me") }

PartialEvents ==
  {Partial("part"), Partial("pself")}

\* the objects the gateway delivers to _mainListener
Events ==
  {e \in FullEvents : e.id \notin {p.id : p \in PartialEvents}} \cup PartialEvents

\* the events of the runs with several dispatches in flight
ConcurrentEventIds ==
  {"mc1", "mc2", "sl3", "anon", "part"}

\* what interaction.fetch() of the partial object o resolves to
Fetch(o) ==
  CHOOSE f \in FullEvents : f.id = o.id

----------------------------------------------------------------------------
(* The dispatcher's steps *)

\* a _mainListener that awaited a fetch of every object, partial or not
MainListener_AlwaysFetch(raw, behs) ==
  Fetching(raw)

\* _mainListener handing the object to _handleInteraction as it came
MainListener_NoFetch(raw, behs) ==
  Settled(raw, HandleInteraction(raw, behs))

\* _mainListener(interaction) up to its first await
MainListener(raw, behs) ==
  IF raw.partial THEN Fetching(raw)
  ELSE Settled(raw, HandleInteraction(raw, behs))

Behaviours(o) ==
  [1..HandlerCount(o) -> HandlerBehaviours]

\* the gateway emits interactionCreate or messageCreate while no other dispatch
\* is in flight; the record of the dispatch before it is dropped
Deliver ==
  /\ started
  /\ \A i \in 1..Len(disp) : Terminal(disp[i])
  /\ \E raw \in Events :
       \E behs \in Behaviours(raw) :
         /\ disp' = <<MainListener(raw, behs)>>
         /\ listeners' = ListenersAfterEmit(listeners, disp'[1].key)
  /\ UNCHANGED <<commands, messageCommands, started, pin, pout>>

\* the gateway emits interactionCreate or messageCreate while earlier
\* dispatches are still in flight
DeliverConcurrent ==
  /\ started
  /\ Len(disp) < MaxEvents
  /\ \E raw \in {e \in Events : e.id \in ConcurrentEventIds} :
       \E behs \in Behaviours(raw) :
         /\ disp' = Append(disp, MainListener(raw, behs))
         /\ listeners' = ListenersAfterEmit(listeners, disp'[Len(disp')].key)
  /\ UNCHANGED <<commands, messageCommands, started, pin, pout>>

\* interaction.fetch() of a partial object settles: _handleInteraction goes on
\* with the full object, or throws
FetchSettles(i) ==
  /\ disp[i].main = "fetch"
  /\ \/ \E behs \in Behaviours(Fetch(disp[i].raw)) :
          /\ disp' = [disp EXCEPT ![i] = Settled(disp[i].raw, HandleInteraction(Fetch(disp[i].raw), behs))]
          /\ listeners' = ListenersAfterEmit(listeners, disp'[i].key)
     \/ /\ disp' = [disp EXCEPT ![i] =
                      Settled(disp[i].raw,
                              [threw |-> TRUE, err |-> "fetch", normalized |-> FALSE,
                               key |-> NoEventName, emitted |-> <<>>, tasks |-> <<>>,
                               log |-> {}])]
        /\ UNCHANGED listeners
  /\ UNCHANGED <<commands, messageCommands, started, pin, pout>>

\* a reply operation that is not resumed when its platform call settled
TaskAfterReply_Stuck(t, ok) ==
  t

\* the task after the platform call its reply operation awaits settled.  A
\* reply() that throws rejects the promise the listener returned, which the
\* emitter (captureRejections) hands to [captureRejectionSymbol]: an error log.
TaskAfterReply(t, ok) ==
  LET op == ReplyResume(t.rep, ok)
      warned == IF ok THEN t.log ELSE t.log \cup {"warn:reply"}
  IN  [t EXCEPT !.rep = op,
                !.h = IF op.purpose = "handler" /\ op.pc = "resolved" THEN "resolved"
                      ELSE IF op.purpose = "handler" /\ op.pc = "threw" THEN "rejected"
                      ELSE @,
                !.log = IF op.pc = "threw" THEN warned \cup {"error:rejection"} ELSE warned]

\* originalObject.reply, editReply or followUp of a reply operation settles
ReplySettles(i, t) ==
  /\ ReplyInFlight(disp[i].tasks[t].rep)
  /\ \E ok \in BOOLEAN :
       disp' = [disp EXCEPT ![i].tasks[t] = TaskAfterReply(@, ok)]
  /\ UNCHANGED <<commands, listeners, messageCommands, started, pin, pout>>

\* the promise of a handler settles; a rejection goes to [captureRejectionSymbol]
HandlerSettles(i, t) ==
  /\ disp[i].tasks[t].h = "pending"
  /\ disp[i].tasks[t].rep = NoReply
  /\ \/ disp' = [disp EXCEPT ![i].tasks[t].h = "resolved"]
     \/ disp' = [disp EXCEPT ![i].tasks[t].h = "rejected",
                             ![i].tasks[t].log = @ \cup {"error:rejection"}]
  /\ UNCHANGED <<commands, listeners, messageCommands, started, pin, pout>>

\* interaction.reply({ content: errorContent }) of the catch block of
\* _mainListener settles: _mainListener returns, or its promise rejects.  The
\* rejected promise goes back to the emitter of the gateway client, which
\* _mainListener was registered on with client.on; nothing of the bot reads it,
\* and the other dispatches go on.
ErrorReplySettles(i) ==
  /\ disp[i].main = "errorReply"
  /\ \/ disp' = [disp EXCEPT ![i].main = "done"]
     \/ disp' = [disp EXCEPT ![i].main = "rejected"]
  /\ UNCHANGED <<commands, listeners, messageCommands, started, pin, pout>>

Init ==
  /\ IdleRegistry
  /\ pin = NotComputed
  /\ pout = NotComputed

Next ==
  \/ AddCommand
  \/ Start
  \/ Deliver
  \/ \E i \in 1..Len(disp) : FetchSettles(i)
  \/ \E i \in 1..Len(disp) : ErrorReplySettles(i)
  \/ \E i \in 1..Len(disp) : \E t \in 1..Len(disp[i].tasks) : ReplySettles(i, t)
  \/ \E i \in 1..Len(disp) : \E t \in 1..Len(disp[i].tasks) : HandlerSettles(i, t)

Spec ==
  Init /\ [][Next]_vars

NextConcurrent ==
  \/ AddCommand
  \/ Start
  \/ DeliverConcurrent
  \/ \E i \in 1..Len(disp) : FetchSettles(i)
  \/ \E i \in 1..Len(disp) : ErrorReplySettles(i)
  \/ \E i \in 1..Len(disp) : \E t \in 1..Len(disp[i].tasks) : ReplySettles(i, t)
  \/ \E i \in 1..Len(disp) : \E t \in 1..Len(disp[i].tasks) : HandlerSettles(i, t)

SpecConcurrent ==
  Init /\ [][NextConcurrent]_vars

----------------------------------------------------------------------------
(* The registry under the descriptors an application may supply *)

\* a command definition with no role policy; the fields left out of a
\* definition take the defaults of the constructor's parameter list
Descriptor(name, description, handlers, isSlashCommand, isMessageCommand, options, buttonsHandheld, selectMenusHandheld) ==
  [name |-> name, description |-> description, handlers |-> handlers,
   isSlashCommand |-> isSlashCommand, isMessageCommand |-> isMessageCommand,
   requiredRoles |-> <<>>, requireAllRoles |-> FALSE,
   requiredRolesErrorMessage |-> "You do not have the required roles to use this command.",
   options |-> options,
   buttonsHandheld |-> buttonsHandheld, selectMenusHandheld |-> selectMenusHandheld]

\* a second descriptor named p, with the button of the first and a select menu
\* it has no handler for
TwinDescriptor ==
  Descriptor(<<"p">>, "twin", {"commandHandler", "buttonsHandler", "mentionHandler"},
             TRUE, TRUE, <<>>, << <<"s">> >>, << <<"m">> >>)

\* name is <<>> when the definition has no name or an empty one: name.toLowerCase()
\* of the constructor throws on the first, _check on the second
NamelessDescriptor ==
  Descriptor(<<>>, "nameless", {"commandHandler", "messageHandler"}, TRUE, TRUE, <<>>, <<>>, <<>>)

UndescribedDescriptor ==
  Descriptor(<<"n">>, "", {"commandHandler", "mentionHandler"}, TRUE, TRUE, <<>>, <<>>, <<>>)

\* an option of a type _addOptions does not know, on a slash command
SlashColorDescriptor ==
  Descriptor(<<"c">>, "color", {"commandHandler"}, TRUE, TRUE, <<"color">>, <<>>, <<>>)

\* the same option on a command that is not a slash command
MessageColorDescriptor ==
  Descriptor(<<"c">>, "color", {"commandHandler"}, FALSE, TRUE, <<"color">>, <<>>, <<>>)

\* the command definitions addCommand receives, in order
Supplied ==
  <<Definitions[1], NamelessDescriptor, Definitions[2], UndescribedDescriptor,
    TwinDescriptor, SlashColorDescriptor, MessageColorDescriptor>>

\* _check(): the warnings of identifiers declared without their handler
CheckWarnings(def) ==
  (IF Len(def.buttonsHandheld) > 0 /\ "buttonsHandler" \notin def.handlers
   THEN {"warn:buttonsHandler"} ELSE {})
  \cup
  (IF Len(def.selectMenusHandheld) > 0 /\ "selectMenusHandler" \notin def.handlers
   THEN {"warn:selectMenusHandler"} ELSE {})

\* new Command({ ...commandDefinition, bot }) throws: in _check or in _addOptions,
\* both of which run before _listen
ConstructorThrows(def) ==
  CheckThrows(def) \/ AddOptionsThrows(def)

\* how many times addCommand was called
Calls ==
  IF pout.done THEN pout.calls ELSE 0

\* DiscordBot.addCommand(commandDefinition) with any definition.  When the
\* constructor throws, addCommand throws before the push and before _listen,
\* and the application goes on with its next definition.  pin is the
\* definition of the last call, pout its outcome.
AddCommandOf(def) ==
  /\ ~started
  /\ IF ConstructorThrows(def)
     THEN UNCHANGED <<commands, listeners>>
     ELSE /\ commands' = Append(commands, CommandOf(def))
          /\ listeners' = listeners \o ListenersOf(CommandOf(def), Len(commands) + 1)
  /\ pin' = def
  /\ pout' = [done |-> TRUE, threw |-> ConstructorThrows(def),
              log |-> IF CheckThrows(def) THEN {} ELSE CheckWarnings(def),
              calls |-> Calls + 1]
  /\ UNCHANGED <<messageCommands, started, disp>>

AddSupplied ==
  /\ Calls < Len(Supplied)
  /\ AddCommandOf(Supplied[Calls + 1])

\* a message that names the command c
ColorMessage ==
  Message("mcc", <<"!", "c">>, "other", "g1", "u1")

\* a message that names the command p, with an argument, and mentions the bot
ArgsMessage ==
  Message("mca", <<"!", "p", " ", "b">>, "me", "g1", "u1")

\* the events of the runs over the supplied definitions
RegistryEvents ==
  {e \in Events : e.id \in {"btn1", "sl1", "mc1", "mcb", "mn2", "ms1", "anon"}}
    \cup {ColorMessage, ArgsMessage}

\* the gateway emits interactionCreate or messageCreate, one dispatch at a time
DeliverRegistered ==
  /\ started
  /\ \A i \in 1..Len(disp) : Terminal(disp[i])
  /\ \E raw \in RegistryEvents :
       \E behs \in Behaviours(raw) :
         /\ disp' = <<MainListener(raw, behs)>>
         /\ listeners' = ListenersAfterEmit(listeners, disp'[1].key)
  /\ UNCHANGED <<commands, messageCommands, started, pin, pout>>

NextRegistry ==
  \/ AddSupplied
  \/ Start
  \/ DeliverRegistered
  \/ \E i \in 1..Len(disp) : ErrorReplySettles(i)
  \/ \E i \in 1..Len(disp) : \E t \in 1..Len(disp[i].tasks) : ReplySettles(i, t)
  \/ \E i \in 1..Len(disp) : \E t \in 1..Len(disp[i].tasks) : HandlerSettles(i, t)

SpecRegistry ==
  Init /\ [][NextRegistry]_vars

----------------------------------------------------------------------------
(* Classification properties *)

\* The rules of the classifier as the specification lists them, in order:
\* whether the rule matches the raw event, and the event-kind it yields.
ClassifierRules(raw, msgCmds) ==
  LET text     == raw.content
      token    == SplitFirst(Slice(text, Len(Prefix)))
      directed == \/ raw.mentions = "me"
                  \/ Includes(ToLowerCase(text), ToLowerCase(MyUsername))
  IN  << [matches |-> raw.customId # <<>> /\ raw.isButton = "yes",
          key |-> EventKey("button", raw.customId)],
         [matches |-> raw.customId # <<>> /\ raw.isSelectMenu = "yes",
          key |-> EventKey("selectMenu", raw.customId)],
         [matches |-> raw.commandName # <<>>,
          key |-> EventKey("slashCommand", raw.commandName)],
         [matches |-> StartsWith(text, Prefix) /\ token \in msgCmds,
          key |-> EventKey("messageCommand", token)],
         [matches |-> directed,
          key |-> EventKey("mention", <<>>)],
         [matches |-> raw.guild = NoGuild,
          key |-> EventKey("directMessage", <<>>)],
         [matches |-> TRUE,
          key |-> EventKey("message", <<>>)] >>

FirstMatch(rules) ==
  CHOOSE i \in 1..Len(rules) : rules[i].matches /\ \A j \in 1..(i - 1) : ~rules[j].matches

\* C1: the event-kind computed by eventName is the one of the first rule that
\* matches in the order button, select menu, slash command, message command,
\* directed at the bot, direct message, message; a later rule never wins when an
\* earlier one matches.
C1_FirstMatchWins ==
  pout.done /\ pin \in ClassifyInputs =>
    LET rules == ClassifierRules(pin.raw, pin.msgCmds)
    IN  pout.value = rules[FirstMatch(rules)].key

\* C1 witness: a prefixed, registered command whose text also names the bot, in a
\* direct message: rules 4, 5 and 6 all match and rule 4 wins.
C1_Witness ==
  /\ pout.done
  /\ pin \in ClassifyInputs
  /\ LET rules == ClassifierRules(pin.raw, pin.msgCmds)
     IN  /\ rules[4].matches /\ rules[5].matches /\ rules[6].matches
         /\ FirstMatch(rules) = 4
         /\ pout.value.kind = "messageCommand"

\* no button, select-menu or slash-command marker and no recognized prefixed command
Unmarked(raw, msgCmds) ==
  LET rules == ClassifierRules(raw, msgCmds)
  IN  \A i \in 1..4 : ~rules[i].matches

\* C2: an event with no button, select-menu or slash-command marker and no
\* recognized prefixed command is a mention when it is directed at the bot (also
\* in a direct message), a directMessage when it is in a direct message and not
\* directed at the bot, and a message when it is in a guild and not directed at
\* the bot.
C2_TextualKinds ==
  pout.done /\ pin \in ClassifyInputs /\ Unmarked(pin.raw, pin.msgCmds) =>
    LET directed == \/ pin.raw.mentions = "me"
                    \/ Includes(ToLowerCase(pin.raw.content), ToLowerCase(MyUsername))
        inDM     == pin.raw.guild = NoGuild
    IN  /\ directed => pout.value = EventKey("mention", <<>>)
        /\ ~directed /\ inDM => pout.value = EventKey("directMessage", <<>>)
        /\ ~directed /\ ~inDM => pout.value = EventKey("message", <<>>)

\* C2 witness: a direct message that names the bot in lower case is a mention
C2_Witness ==
  /\ pout.done
  /\ pin \in ClassifyInputs
  /\ Unmarked(pin.raw, pin.msgCmds)
  /\ pin.raw.guild = NoGuild
  /\ pin.raw.mentions # "me"
  /\ pin.raw.content = <<" ", "b">>
  /\ pout.value = EventKey("mention", <<>>)

----------------------------------------------------------------------------
(* Authorization properties *)

\* the Actor holds the role a descriptor names, by role name or role id
Holds(author, ref) ==
  \E r \in UserRoles(author) : ref \in {r.name, r.id}

\* C3: the authorization check succeeds when requiredRoles is empty; otherwise
\* with requireAllRoles it succeeds iff the Actor holds every required role, and
\* without it iff the Actor holds at least one.
C3_Authorization ==
  pout.done /\ pin \in AuthInputs =>
    LET req == {pin.requiredRoles[i] : i \in 1..Len(pin.requiredRoles)}
    IN  pout.value = (IF req = {} THEN TRUE
                      ELSE IF pin.requireAllRoles
                           THEN \A r \in req : Holds(pin.author, r)
                           ELSE \E r \in req : Holds(pin.author, r))

\* C3 witness: all roles required, the Actor holds one of two, the check fails
C3_Witness ==
  /\ pout.done
  /\ pin \in AuthInputs
  /\ pin.requireAllRoles
  /\ pin.requiredRoles = <<"dj", "r3">>
  /\ Holds(pin.author, "dj")
  /\ ~Holds(pin.author, "r3")
  /\ pout.value = FALSE

----------------------------------------------------------------------------
(* Dispatch properties *)

\* the object a dispatch normalizes: the raw event, or what its fetch resolved to
NormalizedObject(d) ==
  IF d.raw.partial THEN Fetch(d.raw) ELSE d.raw

\* the account that authored the event
AuthorId(o) ==
  IF o.user # NoUser THEN o.user ELSE o.author

\* the Actor of the dispatch
Actor(d) ==
  UnifiedInteraction(NormalizedObject(d)).author

\* the descriptor's role policy admits the Actor
Admits(c, actor) ==
  LET req == {c.requiredRoles[i] : i \in 1..Len(c.requiredRoles)}
  IN  \/ req = {}
      \/ c.requireAllRoles /\ \A r \in req : Holds(actor, r)
      \/ ~c.requireAllRoles /\ \E r \in req : Holds(actor, r)

\* the reply operation op has called, or is calling, the platform's direct reply
DirectReplyCalled(op) ==
  \/ op.pc = "reply"
  \/ Len(op.attempts) >= 1 /\ op.attempts[1].call = "reply"

\* C4: for every event kind, when the authorization check of the matched
\* descriptor fails, the descriptor's handler is never invoked for that event
\* and the descriptor's requiredRolesErrorMessage is sent as an ephemeral reply.
C4_DeniedNeverInvoked ==
  \A i \in 1..Len(disp) : \A t \in 1..Len(disp[i].tasks) :
    LET task == disp[i].tasks[t]
        c    == commands[task.cmd]
    IN  ~Admits(c, Actor(disp[i])) =>
          /\ task.h = "none"
          /\ task.rep.purpose = "denial"
          /\ task.rep.content = c.requiredRolesErrorMessage
          /\ task.rep.ephemeral
          /\ DirectReplyCalled(task.rep)

\* C4 witness: a prefixed command of an author without the required role was
\* denied and the denial was delivered by the direct reply
C4_Witness ==
  \E i \in 1..Len(disp) : \E t \in 1..Len(disp[i].tasks) :
    /\ disp[i].key = EventKey("messageCommand", <<"p">>)
    /\ ~Admits(commands[disp[i].tasks[t].cmd], Actor(disp[i]))
    /\ disp[i].tasks[t].h = "none"
    /\ disp[i].tasks[t].rep.content = "no-dj"
    /\ disp[i].tasks[t].rep.pc = "resolved"

\* every reply operation of the dispatches
ReplyOps ==
  UNION {{disp[i].tasks[t].rep : t \in 1..Len(disp[i].tasks)} : i \in 1..Len(disp)}
    \ {NoReply}

\* C5: when the direct reply fails and the edit of the existing reply succeeds,
\* the reply operation reports success and the follow-up is not attempted.
C5_EditSuccessEndsReply ==
  \A op \in ReplyOps :
    (/\ Len(op.attempts) >= 2
     /\ op.attempts[1] = [call |-> "reply", ok |-> FALSE]
     /\ op.attempts[2] = [call |-> "editReply", ok |-> TRUE])
    => /\ op.pc = "resolved"
       /\ Len(op.attempts) = 2

\* C6: the reply operation raises an error if and only if all three strategies
\* fail; when any one of them succeeds it completes without error.
C6_RaisesIffAllFail ==
  \A op \in ReplyOps :
    op.pc \in {"resolved", "threw"} =>
      (op.pc = "threw" <=>
         /\ Len(op.attempts) = 3
         /\ \A k \in 1..3 : ~op.attempts[k].ok)

\* C7: whenever a handler fails, by a synchronous throw or by the rejection of
\* its asynchronous body, the dispatcher logs the error with the event context
\* and attempts a generic-failure reply for that event.
C7_HandlerFailureReplied ==
  \A i \in 1..Len(disp) : \A t \in 1..Len(disp[i].tasks) :
    LET task == disp[i].tasks[t]
    IN  task.h \in {"threw", "rejected"} =>
          /\ task.log \cap {"error:handler", "error:rejection"} # {}
          /\ task.rep.purpose = "error"
          /\ task.rep.content = GenericError

\* C8: _mainListener completes without raising for every raw event: no failure
\* of normalization, of a handler or of the error reply propagates out of it.
C8_MainListenerNeverRejects ==
  \A i \in 1..Len(disp) : disp[i].main # "rejected"

\* the descriptor owns the event-kind key
Handles(c, key) ==
  CASE key.kind = "button" ->
         /\ "buttonsHandler" \in c.handlers
         /\ \E b \in 1..Len(c.buttonsHandheld) : c.buttonsHandheld[b] = key.id
    [] key.kind = "selectMenu" ->
         /\ "selectMenusHandler" \in c.handlers
         /\ \E b \in 1..Len(c.selectMenusHandheld) : c.selectMenusHandheld[b] = key.id
    [] key.kind = "slashCommand" -> c.isSlashCommand /\ c.name = key.id
    [] key.kind = "messageCommand" -> c.isMessageCommand /\ c.name = key.id
    [] key.kind = "message" -> "messageHandler" \in c.handlers
    [] key.kind = "mention" -> "mentionHandler" \in c.handlers
    [] key.kind = "directMessage" -> "dmHandler" \in c.handlers
    [] OTHER -> FALSE

\* a dispatch that was normalized and emitted without a failure reached every
\* descriptor owning its event-kind, and called the handler of each one that
\* admits the Actor
HandlersInvoked(d) ==
  (d.main # "fetch" /\ d.err = "none" /\ ~UserIsBot(AuthorId(NormalizedObject(d)))) =>
    LET o     == NormalizedObject(d)
        rules == ClassifierRules(o, messageCommands)
        key   == rules[FirstMatch(rules)].key
        owners == {k \in 1..Len(commands) : Handles(commands[k], key)}
    IN  /\ {d.tasks[t].cmd : t \in 1..Len(d.tasks)} = owners
        /\ \A t \in 1..Len(d.tasks) :
             (d.tasks[t].h # "none") <=> Admits(commands[d.tasks[t].cmd], Actor(d))

\* a step changes the record of at most one dispatch: the handler calls and
\* the reply of every other dispatch are as they were
OthersUntouched ==
  /\ Len(disp') >= Len(disp)
  /\ \A i \in 1..Len(disp) : \A j \in 1..Len(disp) :
       i # j /\ disp'[i] # disp[i] => disp'[j] = disp[j]
  /\ Len(disp') > Len(disp) => \A j \in 1..Len(disp) : disp'[j] = disp[j]

\* C9: for any two events whose dispatches are in flight at the same time, in
\* every interleaving, a failure in one dispatch (handler exception, denied
\* authorization, reply delivery failure, identity resolution failure) does not
\* prevent the other event's matching handler from being invoked and does not
\* change the other event's reply.
C9_DispatchesIsolated ==
  [][OthersUntouched /\ \A j \in 1..Len(disp') : HandlersInvoked(disp'[j])]_vars

\* C9 witness: the first event failed in normalization and its error reply
\* failed too; the handler of the event delivered after it ran and replied
C9_Witness ==
  /\ Len(disp) >= 2
  /\ disp[1].err = "identity"
  /\ disp[1].main = "rejected"
  /\ disp[2].raw.id = "mc1"
  /\ Len(disp[2].tasks) = 1
  /\ disp[2].tasks[1].h = "resolved"
  /\ disp[2].tasks[1].rep.content = "pong"
  /\ disp[2].tasks[1].rep.pc = "resolved"

\* C10: for every raw event whose author is a bot no classification takes
\* place: no event-kind notification and no external: notification is emitted
\* and no handler is invoked; for an event authored by the bot itself nothing is
\* logged either.  The author of a partial event is known once it is fetched.
C10_BotEventsFiltered ==
  \A i \in 1..Len(disp) :
    LET d == disp[i]
    IN  d.normalized /\ UserIsBot(AuthorId(NormalizedObject(d))) =>
          /\ d.emitted = <<>>
          /\ d.tasks = <<>>
          /\ d.main = "done"
          /\ AuthorId(NormalizedObject(d)) = MyId => d.log = {}

\* C10 witness: an event of another bot was dropped with its log line, after
\* the commands it names were registered
C10_Witness ==
  \E i \in 1..Len(disp) :
    /\ disp[i].raw.id = "bot"
    /\ disp[i].log = {"info:ignoring-bot"}
    /\ disp[i].emitted = <<>>
    /\ <<"p">> \in messageCommands

----------------------------------------------------------------------------
(* Registry properties *)

\* the definitions addCommand receives, as a set
SuppliedSet ==
  {Supplied[n] : n \in 1..Len(Supplied)}

\* the event-kind keys the definition resolves to
KeysOf(def) ==
  {ListenersOf(CommandOf(def), 0)[n].key : n \in 1..Len(ListenersOf(CommandOf(def), 0))}

\* the event-kind keys the registered descriptors own
OwnedKeys ==
  {listeners[n].key : n \in 1..Len(listeners)}

\* the keys that carry a command name, a button id or a select-menu id
IdentifiedKeys ==
  {key \in OwnedKeys : key.kind \in {"slashCommand", "messageCommand", "button", "selectMenu"}}

\* C11: registering a descriptor that resolves to an event-kind key an earlier
\* descriptor owns (the same name, the same button identifier) raises an error
\* at registration, and the earlier registration is neither overwritten nor
\* shared: the listeners stay as they were.
C11_CollidingKeyRejected ==
  [][\A def \in SuppliedSet :
       (AddCommandOf(def) /\ KeysOf(def) \cap IdentifiedKeys # {}) =>
         (pout'.threw /\ listeners' = listeners /\ commands' = commands)]_vars

\* the handler property a listener of the given eventType calls
HandlerOfType(ltype) ==
  CASE ltype = "Button handler"      -> "buttonsHandler"
    [] ltype = "Select menu handler" -> "selectMenusHandler"
    [] ltype = "Slash Command"       -> "commandHandler"
    [] ltype = "Message Command"     -> "commandHandler"
    [] ltype = "Message Handler"     -> "messageHandler"
    [] ltype = "Mention Handler"     -> "mentionHandler"
    [] OTHER                         -> "dmHandler"

\* the listener of the task called a handler function of its descriptor
HandlerCalled(task) ==
  /\ task.h # "none"
  /\ HandlerOfType(task.ltype) \in commands[task.cmd].handlers

\* C12: for every dispatched event and every set of registered descriptors, the
\* handler of at most one descriptor is invoked for the event.
C12_SingleHandlerPerEvent ==
  \A i \in 1..Len(disp) :
    Cardinality({disp[i].tasks[t].cmd :
                   t \in {u \in 1..Len(disp[i].tasks) : HandlerCalled(disp[i].tasks[u])}}) <= 1

\* the definition has what _check and _addOptions require of every descriptor
WellFormed(def) ==
  /\ def.name # <<>>
  /\ def.description # ""
  /\ def.isSlashCommand => \A n \in 1..Len(def.options) : def.options[n] \in OptionTypes

\* the definition declares identifiers of a kind it has no handler function for
LacksButtonsHandler(def) ==
  Len(def.buttonsHandheld) > 0 /\ "buttonsHandler" \notin def.handlers

LacksSelectMenusHandler(def) ==
  Len(def.selectMenusHandheld) > 0 /\ "selectMenusHandler" \notin def.handlers

\* the keys of the definition once the identifiers without a handler function
\* are dropped: its command keys, its mention, message and DM handlers, and the
\* identifiers that do have their handler function
DeclaredKeys(def) ==
  (IF def.isSlashCommand THEN {EventKey("slashCommand", ToLowerCase(def.name))} ELSE {})
  \cup (IF def.isMessageCommand THEN {EventKey("messageCommand", ToLowerCase(def.name))} ELSE {})
  \cup (IF "messageHandler" \in def.handlers THEN {EventKey("message", <<>>)} ELSE {})
  \cup (IF "mentionHandler" \in def.handlers THEN {EventKey("mention", <<>>)} ELSE {})
  \cup (IF "dmHandler" \in def.handlers THEN {EventKey("directMessage", <<>>)} ELSE {})
  \cup (IF "buttonsHandler" \in def.handlers
        THEN {EventKey("button", def.buttonsHandheld[n]) : n \in 1..Len(def.buttonsHandheld)}
        ELSE {})
  \cup (IF "selectMenusHandler" \in def.handlers
        THEN {EventKey("selectMenu", def.selectMenusHandheld[n]) : n \in 1..Len(def.selectMenusHandheld)}
        ELSE {})

\* the listeners a step registered
NewListeners ==
  {listeners'[n] : n \in (Len(listeners) + 1)..Len(listeners')}

\* the listeners of the command at index k of bot.commands
ListenerKeysOfCommand(k) ==
  {listeners[n].key : n \in {m \in 1..Len(listeners) : listeners[m].cmd = k}}

\* C13: registering an otherwise well-formed descriptor that declares button
\* identifiers without a buttonsHandler function, or select-menu identifiers
\* without a selectMenusHandler function, succeeds: the identifiers of that kind
\* are dropped with a warning, no listener is registered for them, and its
\* command, mention, message and DM listeners are registered as declared.
C13_HandlerlessIdentifiersDropped ==
  [][\A def \in SuppliedSet :
       (/\ AddCommandOf(def)
        /\ WellFormed(def)
        /\ LacksButtonsHandler(def) \/ LacksSelectMenusHandler(def)) =>
         /\ ~pout'.threw
         /\ Len(commands') = Len(commands) + 1
         /\ SubSeq(listeners', 1, Len(listeners)) = listeners
         /\ LacksButtonsHandler(def) =>
              /\ "warn:buttonsHandler" \in pout'.log
              /\ commands'[Len(commands')].buttonsHandheld = <<>>
              /\ \A l \in NewListeners : l.key.kind # "button"
         /\ LacksSelectMenusHandler(def) =>
              /\ "warn:selectMenusHandler" \in pout'.log
              /\ commands'[Len(commands')].selectMenusHandheld = <<>>
              /\ \A l \in NewListeners : l.key.kind # "selectMenu"
         /\ {l.key : l \in NewListeners} = DeclaredKeys(def)
         /\ \A l \in NewListeners : l.cmd = Len(commands')]_vars

\* C13 witness: the descriptor b, with a button and no buttonsHandler, and the
\* descriptor twin, with a select menu and no selectMenusHandler, are both
\* registered without those identifiers and with their other listeners
C13_Witness ==
  \E k \in 1..Len(commands) : \E j \in 1..Len(commands) :
    /\ commands[k].description = "open"
    /\ commands[j].description = "twin"
    /\ ListenerKeysOfCommand(k) =
         {EventKey("messageCommand", <<"b">>), EventKey("message", <<>>)}
    /\ ListenerKeysOfCommand(j) =
         {EventKey("button", <<"s">>), EventKey("slashCommand", <<"p">>),
          EventKey("messageCommand", <<"p">>), EventKey("mention", <<>>)}
    /\ pin = TwinDescriptor
    /\ pout.log = {"warn:selectMenusHandler"}

\* C14: registering a descriptor whose name is missing or empty, or whose
\* description is missing or empty, fails with an error at registration; no
\* listener of the descriptor is registered and the descriptor is not added to
\* the bot's command list.
C14_NamelessOrUndescribedFails ==
  [][\A def \in SuppliedSet :
       (AddCommandOf(def) /\ (def.name = <<>> \/ def.description = "")) =>
         /\ pout'.threw
         /\ listeners' = listeners
         /\ commands' = commands]_vars

\* C14 witness: the descriptor without a description was refused after the
\* descriptor without a name; the two valid descriptors before them are the
\* only ones on the command list and no listener carries the refused name
C14_Witness ==
  /\ pout.done
  /\ pout.threw
  /\ pout.calls = 4
  /\ pin = UndescribedDescriptor
  /\ Len(commands) = 2
  /\ \A n \in 1..Len(listeners) : listeners[n].key.id # <<"n">> /\ listeners[n].cmd <= 2

\* C15: for every descriptor, slash command or not, an option of an unrecognized
\* type makes registration fail, so that no registered descriptor carries one.
C15_UnknownOptionTypeFails ==
  [][\A def \in SuppliedSet :
       (AddCommandOf(def) /\ \E n \in 1..Len(def.options) : def.options[n] \notin OptionTypes) =>
         /\ pout'.threw
         /\ listeners' = listeners
         /\ commands' = commands]_vars

----------------------------------------------------------------------------
(* Message commands and buttons *)

\* the content is the prefix followed by the name n, alone or followed by a
\* space and arguments
NamesCommand(content, n) ==
  LET head == Prefix \o n
  IN  \/ content = head
      \/ /\ Len(content) > Len(head)
         /\ SubSeq(content, 1, Len(head) + 1) = head \o <<" ">>

\* the normalized object is a text message: no custom id, no command name
TextMessage(o) ==
  o.customId = <<>> /\ o.commandName = <<>>

\* the tasks the dispatch started for the command at index k
TasksOf(d, k) ==
  {t \in 1..Len(d.tasks) : d.tasks[t].cmd = k}

\* C16: for every registered message-command name n, a guild text message of a
\* non-bot author whose content is the prefix followed by n, alone or followed
\* by a space and arguments, classifies to messageCommand:n, and every
\* descriptor registered under n whose role check admits the author has its
\* command handler called exactly once.
C16_PrefixedNameReachesCommand ==
  \A i \in 1..Len(disp) : \A n \in messageCommands :
    LET d == disp[i]
        o == NormalizedObject(d)
    IN  (/\ d.normalized
         /\ TextMessage(o)
         /\ o.guild # NoGuild
         /\ ~UserIsBot(AuthorId(o))
         /\ NamesCommand(o.content, n)) =>
          /\ d.key = EventKey("messageCommand", n)
          /\ \A k \in 1..Len(commands) :
               (commands[k].isMessageCommand /\ commands[k].name = n) =>
                 /\ Cardinality(TasksOf(d, k)) = 1
                 /\ \A t \in TasksOf(d, k) :
                      /\ d.tasks[t].ltype = "Message Command"
                      /\ (Admits(commands[k], Actor(d)) /\ "commandHandler" \in commands[k].handlers)
                           => HandlerCalled(d.tasks[t])

\* C16 witness: the message "!p b" of a member with the dj role, which also
\* mentions the bot, reached the command handler of the gated descriptor P
C16_Witness ==
  \E i \in 1..Len(disp) : \E t \in 1..Len(disp[i].tasks) :
    /\ disp[i].raw.id = "mca"
    /\ disp[i].key = EventKey("messageCommand", <<"p">>)
    /\ commands[disp[i].tasks[t].cmd].description = "gated"
    /\ disp[i].tasks[t].ltype = "Message Command"
    /\ disp[i].tasks[t].h = "resolved"

\* the token between the prefix and the first space of a prefixed content
TokenAfterPrefix(content) ==
  LET rest   == SubSeq(content, Len(Prefix) + 1, Len(content))
      spaces == {n \in 1..Len(rest) : rest[n] = " "}
  IN  IF spaces = {} THEN rest
      ELSE SubSeq(rest, 1, (CHOOSE n \in spaces : \A m \in spaces : n <= m) - 1)

\* the content begins with the configured prefix
Prefixed(content) ==
  /\ Len(content) >= Len(Prefix)
  /\ SubSeq(content, 1, Len(Prefix)) = Prefix

\* the raw event is a text event: not a button press, not a select-menu press,
\* not a slash command
TextEvent(raw) ==
  /\ ~(raw.customId # <<>> /\ raw.isButton = "yes")
  /\ ~(raw.customId # <<>> /\ raw.isSelectMenu = "yes")
  /\ raw.commandName = <<>>

\* the event is addressed to the bot: it mentions the bot's account or its
\* content holds the bot's username, whatever the case
AddressedToBot(raw) ==
  \/ raw.mentions = "me"
  \/ Includes(ToLowerCase(raw.content), ToLowerCase(MyUsername))

\* C17: an event is classified as a message command only if its content begins
\* with the configured prefix and the token between the prefix and the first
\* space is a name of the live message-command set; a prefixed text event whose
\* token is not in that set is never classified messageCommand: it is classified
\* by the later rules, mention, then directMessage, then message.
C17_MessageCommandOnlyIfListed ==
  pout.done =>
    /\ pout.value.kind = "messageCommand" =>
         /\ Prefixed(pin.raw.content)
         /\ TokenAfterPrefix(pin.raw.content) \in pin.msgCmds
         /\ pout.value.id = TokenAfterPrefix(pin.raw.content)
    /\ (/\ TextEvent(pin.raw)
        /\ Prefixed(pin.raw.content)
        /\ TokenAfterPrefix(pin.raw.content) \notin pin.msgCmds) =>
         pout.value = IF AddressedToBot(pin.raw) THEN EventKey("mention", <<>>)
                      ELSE IF pin.raw.guild = NoGuild THEN EventKey("directMessage", <<>>)
                      ELSE EventKey("message", <<>>)

\* C17 witness: "!p " while only b is a message command: the token p is not
\* listed, and the event, a direct message that does not address the bot, was
\* classified directMessage
C17_Witness ==
  /\ pout.done
  /\ pin.raw.content = <<"!", "p", " ">>
  /\ pin.msgCmds = {<<"b">>}
  /\ TextEvent(pin.raw)
  /\ ~AddressedToBot(pin.raw)
  /\ pin.raw.guild = NoGuild
  /\ pout.value = EventKey("directMessage", <<>>)

\* the raw event is a button press
ButtonPress(o) ==
  o.customId # <<>> /\ o.isButton = "yes"

\* the identifier is one the descriptor's buttonsHandheld holds
HoldsButton(c, id) ==
  \E n \in 1..Len(c.buttonsHandheld) : c.buttonsHandheld[n] = id

\* C18 as stated: a button press whose custom id is one of a descriptor's
\* buttonsHandheld identifiers classifies to button:<id> and invokes that
\* descriptor's buttonsHandler; its commandHandler is not invoked for the event.
C18_ButtonReachesButtonsHandler ==
  \A i \in 1..Len(disp) : \A k \in 1..Len(commands) :
    LET d == disp[i]
        o == NormalizedObject(d)
    IN  (d.normalized /\ ButtonPress(o) /\ HoldsButton(commands[k], o.customId)) =>
          /\ d.key = EventKey("button", o.customId)
          /\ \E t \in TasksOf(d, k) : HandlerCalled(d.tasks[t])
          /\ \A t \in TasksOf(d, k) : d.tasks[t].ltype = "Button handler"

\* C18 amended: a button press of a non-bot user whose custom id is one of the
\* buttonsHandheld identifiers a descriptor is registered with classifies to
\* button:<id>; the descriptor's only listener for the event is its button
\* listener, which calls buttonsHandler exactly when the descriptor's role check
\* admits the user, and never commandHandler.
C18_ButtonReachesButtonsHandlerIfAdmitted ==
  \A i \in 1..Len(disp) : \A k \in 1..Len(commands) :
    LET d == disp[i]
        o == NormalizedObject(d)
    IN  (/\ d.normalized
         /\ ButtonPress(o)
         /\ ~UserIsBot(AuthorId(o))
         /\ HoldsButton(commands[k], o.customId)) =>
          /\ d.key = EventKey("button", o.customId)
          /\ Cardinality(TasksOf(d, k)) = 1
          /\ \A t \in TasksOf(d, k) :
               /\ d.tasks[t].ltype = "Button handler"
               /\ HandlerOfType(d.tasks[t].ltype) = "buttonsHandler"
               /\ HandlerCalled(d.tasks[t]) <=> Admits(commands[k], Actor(d))

\* C18 witness: the press of button s by a member with the dj role reached the
\* button listener of the gated descriptor, whose buttonsHandler replied
C18_Witness ==
  \E i \in 1..Len(disp) :
    /\ disp[i].raw.id = "btn1"
    /\ disp[i].key = EventKey("button", <<"s">>)
    /\ Len(disp[i].tasks) = 1
    /\ disp[i].tasks[1].ltype = "Button handler"
    /\ disp[i].tasks[1].h = "resolved"
    /\ disp[i].tasks[1].rep.content = "pong"

----------------------------------------------------------------------------
(* Identity resolution *)

\* C19: when the author of a raw event cannot be resolved to an Actor the
\* dispatch is aborted: the failure is logged, no handler is invoked and no
\* reply is sent on the raw event.
C19_UnresolvedAuthorAborts ==
  \A i \in 1..Len(disp) :
    disp[i].err = "identity" =>
      /\ "error:main" \in disp[i].log
      /\ disp[i].tasks = <<>>
      /\ disp[i].emitted = <<>>
      /\ disp[i].main = "done"

----------------------------------------------------------------------------
(* Harness of the pure functions: Actor construction *)

\* what the constructor of User may be given: a membership record or none, an
\* account or none, a guild or none
ActorInputs ==
  [member : {NoMember} \cup {Member(id, rs) : id \in UserIds, rs \in SUBSET AllRoles},
   user : {NoUser} \cup UserIds,
   guild : {NoGuild} \cup GuildIds]

InitActor ==
  /\ IdleRegistry
  /\ pin \in ActorInputs
  /\ pout = NotComputed

\* new User({ member, user, guild })
Construct ==
  /\ ~pout.done
  /\ pout' = [done |-> TRUE, value |-> NewUser(pin.member, pin.user, pin.guild)]
  /\ UNCHANGED <<commands, listeners, messageCommands, started, disp, pin>>

NextActor ==
  Construct

SpecActor ==
  InitActor /\ [][NextActor]_vars

\* the input resolves to a membership: a membership record is given, or the
\* member cache of the guild holds one for the account
ResolvesToMembership(in) ==
  \/ in.member.present
  \/ in.user # NoUser /\ in.guild # NoGuild /\ CacheGet(in.guild, in.user).present

\* C20: Actor construction succeeds when it is given a guild membership record,
\* or an account and a guild whose member cache holds a membership for the
\* account; when neither resolves to a membership, construction fails.
C20_ActorIffMembership ==
  pout.done => (pout.value.ok <=> ResolvesToMembership(pin))

----------------------------------------------------------------------------
(* Harness of the pure functions: classification read twice *)

InitReclassify ==
  /\ IdleRegistry
  /\ pin \in ClassifyInputs
  /\ pout = NotComputed

\* interactionObject.eventName read for the first time
ClassifyFirst ==
  /\ ~pout.done
  /\ pout' = [done |-> TRUE, again |-> FALSE,
              ui |-> AfterEventName(UnifiedInteraction(pin.raw), pin.msgCmds),
              first |-> EventName(UnifiedInteraction(pin.raw), pin.msgCmds),
              second |-> NoEventName]
  /\ UNCHANGED <<commands, listeners, messageCommands, started, disp, pin>>

\* interactionObject.eventName read again on the same object
ClassifyAgain ==
  /\ pout.done
  /\ ~pout.again
  /\ pout' = [done |-> TRUE, again |-> TRUE,
              ui |-> AfterEventName(pout.ui, pin.msgCmds),
              first |-> pout.first,
              second |-> EventName(pout.ui, pin.msgCmds)]
  /\ UNCHANGED <<commands, listeners, messageCommands, started, disp, pin>>

NextReclassify ==
  \/ ClassifyFirst
  \/ ClassifyAgain

SpecReclassify ==
  InitReclassify /\ [][NextReclassify]_vars

\* C21: classifying the same Normalized Event twice, with the prefix, the bot's
\* identity and the message-command set unchanged in between, yields the same
\* event-kind both times.
C21_ClassificationIdempotent ==
  (pout.done /\ pout.again) => pout.second = pout.first

\* C21 witness: a message command was classified twice; the first reading
\* assigned commandName on the object, and the second gave the same key
C21_Witness ==
  /\ pout.done
  /\ pout.again
  /\ pout.first = EventKey("messageCommand", <<"p">>)
  /\ pout.second = EventKey("messageCommand", <<"p">>)
  /\ UnifiedInteraction(pin.raw).commandName = <<>>
  /\ pout.ui.commandName = <<"p">>

----------------------------------------------------------------------------
(* Dispatch steps *)

\* the event-kind key of the object by the classifier's rules
KeyOf(o) ==
  ClassifierRules(o, messageCommands)[FirstMatch(ClassifierRules(o, messageCommands))].key

\* C22: for every classified event of a non-bot author, command-kind events
\* among them, the dispatcher emits two notifications: first external:<leading
\* segment of the event-kind>, then the full event-kind key, and no other.
C22_ExternalThenKey ==
  \A i \in 1..Len(disp) :
    LET d == disp[i]
        o == NormalizedObject(d)
    IN  (d.normalized /\ ~UserIsBot(AuthorId(o))) =>
          /\ Len(d.emitted) = 2
          /\ d.emitted[1] = EventKey("external", <<KeyOf(o).kind>>)
          /\ d.emitted[2] = KeyOf(o)

\* C22 witness: a slash command and its two notifications
C22_Witness ==
  \E i \in 1..Len(disp) :
    /\ disp[i].raw.id = "sl1"
    /\ disp[i].emitted = <<EventKey("external", <<"slashCommand">>),
                           EventKey("slashCommand", <<"p">>)>>
    /\ Len(disp[i].tasks) = 1

\* the keys of interaction.commandOptions when the listener calls its handler,
\* options being named by their place in the descriptor's list: the slash
\* command listener calls _injectOptions, which sets one key per option of a
\* known type; no other listener calls it, and commandOptions stays {}
CommandOptionKeys(ltype, c) ==
  IF ltype = "Slash Command"
  THEN {n \in 1..Len(c.options) : c.options[n] \in OptionTypes}
  ELSE {}

\* C23: for every command-kind event, slash command or message command, that
\* reaches its handler, the option mapping the handler sees has exactly the
\* option names the descriptor declares as keys.
C23_DeclaredOptionsExposed ==
  \A i \in 1..Len(disp) : \A t \in 1..Len(disp[i].tasks) :
    LET task == disp[i].tasks[t]
        c    == commands[task.cmd]
    IN  (task.ltype \in {"Slash Command", "Message Command"} /\ HandlerCalled(task)) =>
          CommandOptionKeys(task.ltype, c) = 1..Len(c.options)

\* the dispatch is one of a slash command and its first await is behind it
SlashDispatch(d) ==
  /\ d.main # "fetch"
  /\ NormalizedObject(d).commandName # <<>>

\* C24: within the dispatch of one slash-command event the steps run in the
\* order construction of the Normalized Event, bot filter, classification,
\* option extraction, authorization check, handler: a failed construction
\* leaves nothing classified; a bot author leaves nothing classified; a failed
\* option extraction leaves no authorization check (no task, no denial) behind;
\* and a handler was started only where the authorization check succeeded.
C24_SlashStepsInOrder ==
  \A i \in 1..Len(disp) :
    LET d  == disp[i]
        o  == NormalizedObject(d)
        ui == UnifiedInteraction(o)
    IN  SlashDispatch(d) =>
          /\ ~d.normalized => (d.key = NoEventName /\ d.emitted = <<>> /\ d.tasks = <<>>)
          /\ (d.normalized /\ IsFromBot(ui)) =>
               (d.key = NoEventName /\ d.emitted = <<>> /\ d.tasks = <<>>)
          /\ d.tasks # <<>> => d.key = EventKey("slashCommand", o.commandName)
          /\ \A t \in 1..Len(d.tasks) :
               LET task == d.tasks[t]
                   c    == commands[task.cmd]
               IN  /\ task.ltype = "Slash Command"
                   /\ ~InjectOptionsThrows(c, ui)
                   /\ task.allowed = CheckRequiredRoles(c.requiredRoles, c.requireAllRoles, ui.author)
                   /\ task.h # "none" => task.allowed
                   /\ ~task.allowed => task.rep.purpose = "denial"

\* C24 witness: a slash command that went through every step to its handler
C24_Witness ==
  \E i \in 1..Len(disp) :
    /\ SlashDispatch(disp[i])
    /\ disp[i].normalized
    /\ disp[i].emitted # <<>>
    /\ Len(disp[i].tasks) = 1
    /\ disp[i].tasks[1].allowed
    /\ disp[i].tasks[1].h = "returned"

\* C25: for a partial payload the Normalized Event is built only after the
\* fetch completed, and from the fetched full form: while the fetch is awaited
\* nothing is normalized, classified, emitted or handled, and once it resolved
\* the dispatch is the one of the fetched object, never of the partial one.
C25_PartialFetchedBeforeNormalized ==
  \A i \in 1..Len(disp) :
    LET d  == disp[i]
        f  == Fetch(d.raw)
        ui == UnifiedInteraction(f)
    IN  d.raw.partial =>
          /\ d.main = "fetch" =>
               (~d.normalized /\ d.key = NoEventName /\ d.emitted = <<>> /\ d.tasks = <<>>)
          /\ d.normalized =>
               /\ d.main # "fetch"
               /\ ui.author.ok
               /\ ~IsFromBot(ui) => (d.key = KeyOf(f) /\ d.emitted = Emitted(KeyOf(f)))
               /\ IsFromBot(ui) => d.emitted = <<>>
          /\ (d.main # "fetch" /\ ~d.normalized) =>
               (d.err = "fetch" \/ (d.err = "identity" /\ ~ui.author.ok))

\* C25 witness: the partial message "!p", fetched, reached the message command
C25_Witness ==
  \E i \in 1..Len(disp) :
    /\ disp[i].raw.partial
    /\ disp[i].raw.id = "part"
    /\ disp[i].normalized
    /\ disp[i].key = EventKey("messageCommand", <<"p">>)
    /\ disp[i].tasks # <<>>

\* the log of the dispatch d and of its tasks holds an error entry
ErrorLogged(d) ==
  \/ d.log \cap {"error:main", "error:handler", "error:interaction", "error:rejection"} # {}
  \/ \E t \in 1..Len(d.tasks) :
       d.tasks[t].log \cap {"error:main", "error:handler", "error:interaction", "error:rejection"} # {}

\* C26: an event of a non-bot author whose event-kind key no registered
\* descriptor handles is dropped silently: no listener runs, so no handler is
\* called and no reply is started, _mainListener returns without a throw, and
\* no error is logged.
C26_UnregisteredKeyDropped ==
  \A i \in 1..Len(disp) :
    LET d == disp[i]
    IN  (/\ d.normalized
         /\ d.key # NoEventName
         /\ ~\E k \in 1..Len(commands) : Handles(commands[k], d.key)) =>
          /\ d.tasks = <<>>
          /\ d.main = "done"
          /\ d.err = "none"
          /\ ~ErrorLogged(d)

\* C26 witness: the press of button x, which no descriptor handles, was
\* dropped while the registry holds both commands
C26_Witness ==
  \E i \in 1..Len(disp) :
    /\ Len(commands) = 2
    /\ disp[i].raw.id = "btnx"
    /\ disp[i].key = EventKey("button", <<"x">>)
    /\ disp[i].tasks = <<>>
    /\ disp[i].main = "done"

\* C27: after startup no step of a dispatch (the delivery of an event, a fetch,
\* a handler or a reply that settles) changes the registry: the descriptor
\* list, the set of message-command names and the listeners registered under
\* each key stay as they are.
C27_DispatchLeavesRegistry ==
  [][started => /\ commands' = commands
                /\ messageCommands' = messageCommands
                /\ listeners' = listeners
                /\ started']_vars

\* C27 witness: several events were dispatched to their handlers and the
\* registry still holds both commands and their listeners
C27_Witness ==
  /\ started
  /\ Len(commands) = 2
  /\ Len(disp) >= 2
  /\ \A i \in 1..Len(disp) : Terminal(disp[i])
  /\ \E i \in 1..Len(disp) : \E t \in 1..Len(disp[i].tasks) : HandlerCalled(disp[i].tasks[t])
  /\ \A k \in 1..Len(commands) : \A l \in 1..Len(ListenersOf(commands[k], k)) :
       \E j \in 1..Len(listeners) : listeners[j] = ListenersOf(commands[k], k)[l]

----------------------------------------------------------------------------
(* The bot restarted after its session was invalidated *)

\* what importGlob finds in the commands directory: the module loader hands
\* out the same definition at every import
Directories ==
  {<<Definitions[1]>>, <<Definitions[2]>>}

\* addCommands(commandsDefinitions) on the registry reg
RECURSIVE AddCommands(_, _)
AddCommands(reg, defs) ==
  IF defs = <<>> THEN reg
  ELSE LET c == CommandOf(Head(defs))
       IN  AddCommands([commands |-> Append(reg.commands, c),
                        listeners |-> reg.listeners \o ListenersOf(c, Len(reg.commands) + 1)],
                       Tail(defs))

\* how many times start() ran
Starts ==
  IF pout.done THEN pout.starts ELSE 0

InitRestart ==
  /\ IdleRegistry
  /\ pin \in [found : Directories]
  /\ pout = NotComputed

\* DiscordBot.start(): _discoverCommands() adds what the directory holds to
\* bot.commands, then _listCommands() and _registerListeners() on the client
StartDiscovering ==
  /\ ~started
  /\ LET reg == AddCommands([commands |-> commands, listeners |-> listeners], pin.found)
     IN  /\ commands' = reg.commands
         /\ listeners' = reg.listeners
         /\ messageCommands' = messageCommands \cup ListedMessageCommands(reg.commands)
  /\ started' = TRUE
  /\ pout' = [done |-> TRUE, starts |-> Starts + 1]
  /\ UNCHANGED <<disp, pin>>

\* client 'invalidated': the client is destroyed; start() runs again from the
\* timer, on a new client and the same bot
Invalidated ==
  /\ started
  /\ Starts <= MaxInvalidations
  /\ started' = FALSE
  /\ UNCHANGED <<commands, listeners, messageCommands, disp, pin, pout>>

RestartEvents ==
  {e \in Events : e.id \in {"mc1", "mcb", "btn1"}}

\* the gateway client emits interactionCreate or messageCreate
DeliverRestart ==
  /\ started
  /\ \A i \in 1..Len(disp) : Terminal(disp[i])
  /\ \E raw \in RestartEvents :
       \E behs \in Behaviours(raw) :
         /\ disp' = <<MainListener(raw, behs)>>
         /\ listeners' = ListenersAfterEmit(listeners, disp'[1].key)
  /\ UNCHANGED <<commands, messageCommands, started, pin, pout>>

NextRestart ==
  \/ StartDiscovering
  \/ Invalidated
  \/ DeliverRestart
  \/ \E i \in 1..Len(disp) : \E t \in 1..Len(disp[i].tasks) : ReplySettles(i, t)
  \/ \E i \in 1..Len(disp) : \E t \in 1..Len(disp[i].tasks) : HandlerSettles(i, t)

SpecRestart ==
  InitRestart /\ [][NextRestart]_vars

\* the registry the first start() leaves
FirstStart ==
  AddCommands([commands |-> <<>>, listeners |-> <<>>], pin.found)

\* C28: after every run of start(), the first and those that follow a session
\* invalidation, the registry is the one the first start left: every key has
\* the same listeners, and the dispatch of one event calls each matching
\* handler exactly once.
C28_RestartIdempotent ==
  (started /\ Starts >= 1) =>
    /\ commands = FirstStart.commands
    /\ listeners = FirstStart.listeners
    /\ \A i \in 1..Len(disp) : \A t, u \in 1..Len(disp[i].tasks) :
         (/\ HandlerCalled(disp[i].tasks[t])
          /\ HandlerCalled(disp[i].tasks[u])
          /\ commands[disp[i].tasks[t].cmd] = commands[disp[i].tasks[u].cmd]
          /\ disp[i].tasks[t].ltype = disp[i].tasks[u].ltype) => t = u

----------------------------------------------------------------------------
(* lib/ApiServer.js: the preHandler hook *)

\* a header the request does not carry
NoHeader ==
  [present |-> FALSE, value |-> <<>>]

\* a header the request carries with the string v
Header(v) ==
  [present |-> TRUE, value |-> v]

\* the values of a header: a string of characters, or absent
HeaderValues ==
  {NoHeader} \cup {Header(v) : v \in SeqsUpTo({"k", "x"}, MaxHeaderLen)}

\* hmac.digest('hex') of CLIENT_ID under CLIENT_SECRET: one fixed string
APIKey ==
  <<"k", "x">>

\* !request.userId: undefined and the empty string are falsy
Falsy(h) ==
  ~h.present \/ h.value = <<>>

\* request.headers.authorization !== APIKey
NotTheKey(h) ==
  ~h.present \/ h.value # APIKey

\* a hook that checked the API key alone
PreHandler_KeyOnly(request) ==
  IF NotTheKey(request.authorization)
  THEN [replied |-> TRUE, code |-> 401, userId |-> Header(<<>>)]
  ELSE [replied |-> FALSE, code |-> 0, userId |-> request.xUserId]

\* the preHandler hook: replied, when it sent the 401 and called done with an
\* Error; otherwise request.userId is set and done() lets the request through
PreHandler(request) ==
  IF NotTheKey(request.authorization)
  THEN [replied |-> TRUE, code |-> 401, userId |-> Header(<<>>)]
  ELSE IF Falsy(request.xUserId)
  THEN [replied |-> TRUE, code |-> 401, userId |-> request.xUserId]
  ELSE [replied |-> FALSE, code |-> 0, userId |-> request.xUserId]

ApiInputs ==
  [authorization : HeaderValues, xUserId : HeaderValues]

InitApi ==
  /\ IdleRegistry
  /\ pin \in ApiInputs
  /\ pout = NotComputed

\* a request to a registered route: the hook runs, and the route's handler
\* runs when the hook called done() with no error and sent no reply
ServeRequest ==
  /\ ~pout.done
  /\ LET h == PreHandler(pin)
     IN  pout' = [done |-> TRUE, handlerRan |-> ~h.replied,
                  code |-> IF h.replied THEN h.code ELSE 200,
                  userId |-> h.userId]
  /\ UNCHANGED <<commands, listeners, messageCommands, started, disp, pin>>

NextApi ==
  ServeRequest

SpecApi ==
  InitApi /\ [][NextApi]_vars

\* C29: the handler of a registered route runs only for a request whose
\* Authorization header equals the API key and whose X-User-ID header is a
\* non-empty string; every other request is answered 401 and the handler does
\* not run.
C29_HandlerOnlyWhenAuthorized ==
  (pout.done /\ pin \in ApiInputs) =>
    LET authorized == /\ pin.authorization = Header(APIKey)
                      /\ pin.xUserId.present
                      /\ Len(pin.xUserId.value) > 0
    IN  /\ pout.handlerRan <=> authorized
        /\ ~authorized => pout.code = 401
        /\ authorized => pout.userId = pin.xUserId

\* C29 witness: the API key alone, with no X-User-ID, was answered 401
C29_Witness ==
  /\ pout.done
  /\ pin \in ApiInputs
  /\ pin.authorization = Header(APIKey)
  /\ pin.xUserId = Header(<<>>)
  /\ pout.code = 401
  /\ ~pout.handlerRan

----------------------------------------------------------------------------
(* lib/Command.js: the API routes of a command *)

\* the route paths a definition may declare
DeclaredPaths ==
  {<<"/">>, <<"/", "s">>, <<"/", "p">>}

\* a definition with API routes: its name and the paths of its route objects
RouteInputs ==
  [name : {<<"P">>, <<"b">>, <<"p", "B">>},
   routes : SeqsUpTo(DeclaredPaths, MaxRoutes)]

\* _setApiRoot(): each route object of the list gets the path
\* `/${this.name}${route.path}`; the objects are those of the definition
SetApiRoot(name, paths) ==
  IF Len(paths) > 0
  THEN [i \in 1..Len(paths) |-> <<"/">> \o name \o paths[i]]
  ELSE paths

\* how many Commands were built from the definition
Builds ==
  IF pout.done THEN pout.builds ELSE 0

\* the paths the route objects of the definition hold
RoutePaths ==
  IF pout.done THEN pout.paths ELSE pin.routes

InitRoutes ==
  /\ IdleRegistry
  /\ pin \in RouteInputs
  /\ pout = NotComputed

\* addCommand(commandDefinition): new Command({ ...commandDefinition, bot })
\* copies the fields of the definition, the apiRoutes array among them, and
\* _setApiRoot writes the path of each of its route objects
BuildCommand ==
  /\ Builds < MaxBuilds
  /\ pout' = [done |-> TRUE, builds |-> Builds + 1,
              paths |-> SetApiRoot(ToLowerCase(pin.name), RoutePaths)]
  /\ UNCHANGED <<commands, listeners, messageCommands, started, disp, pin>>

NextRoutes ==
  BuildCommand

SpecRoutes ==
  InitRoutes /\ [][NextRoutes]_vars

\* C30: every API route of a registered command is served under
\* /<lower-cased command name><declared route path>, the prefix being applied
\* exactly once, also when a descriptor was built again from the same
\* definition.
C30_RoutePrefixedOnce ==
  (pout.done /\ pin \in RouteInputs) =>
    /\ Len(pout.paths) = Len(pin.routes)
    /\ \A i \in 1..Len(pin.routes) :
         pout.paths[i] = <<"/">> \o ToLowerCase(pin.name) \o pin.routes[i]

----------------------------------------------------------------------------
(* lib/DiscordBot.js: start() and the HTTP server *)

\* what start() reads of a registered command: whether it is a slash command
\* and how many API routes it declares
ServerInputs ==
  [cmds : SeqsUpTo([isSlashCommand : BOOLEAN, routes : 0..MaxRoutes], 2)]

\* _listCommands() keeping the routes of the last command only
ListedApiRoutes_LastOnly(cmds) ==
  IF cmds = <<>> THEN 0 ELSE cmds[Len(cmds)].routes

\* _listCommands(): the size of bot.apiRoutes, the set of the route objects of
\* every command
RECURSIVE ListedApiRoutes(_)
ListedApiRoutes(cmds) ==
  IF cmds = <<>> THEN 0
  ELSE cmds[1].routes + ListedApiRoutes(Tail(cmds))

\* _registerCommands() calls rest.put when some command is a slash command
CallsRestPut(cmds) ==
  \E k \in 1..Len(cmds) : cmds[k].isSlashCommand

\* start() from _listCommands on.  putOk, listenOk: what rest.put and
\* server.listen do.  A failed rest.put makes _registerCommands and start()
\* throw; a failed listen ends the process.
StartOutcome(cmds, putOk, listenOk) ==
  IF CallsRestPut(cmds) /\ ~putOk
  THEN [done |-> TRUE, threw |-> TRUE, server |-> "none"]
  ELSE IF ListedApiRoutes(cmds) > 0
  THEN [done |-> TRUE, threw |-> FALSE, server |-> IF listenOk THEN "listening" ELSE "exit"]
  ELSE [done |-> TRUE, threw |-> FALSE, server |-> "none"]

InitServer ==
  /\ IdleRegistry
  /\ pin \in ServerInputs
  /\ pout = NotComputed

\* bot.start()
StartServer ==
  /\ ~pout.done
  /\ \E putOk \in BOOLEAN : \E listenOk \in BOOLEAN :
       pout' = StartOutcome(pin.cmds, putOk, listenOk)
  /\ UNCHANGED <<commands, listeners, messageCommands, started, disp, pin>>

NextServer ==
  StartServer

SpecServer ==
  InitServer /\ [][NextServer]_vars

\* some registered command declares an API route
DeclaresRoute ==
  \E k \in 1..Len(pin.cmds) : pin.cmds[k].routes > 0

----------------------------------------------------------------------------
(* Claims C31-C40: the reply operation *)

Strategies ==
  <<"reply", "editReply", "followUp">>

\* the platform calls the reply operation op made so far, the one it awaits
\* included
CallsMade(op) ==
  [n \in 1..Len(op.attempts) |-> op.attempts[n].call]
    \o (IF ReplyInFlight(op) THEN <<op.pc>> ELSE <<>>)

\* C32: in one call of the reply operation the platform strategies are tried in
\* the order direct reply, edit of the existing reply, follow-up message, each
\* at most once; and when the direct reply succeeded neither the edit nor the
\* follow-up is tried.
C32_StrategiesInOrder ==
  \A op \in ReplyOps :
    /\ Len(CallsMade(op)) \in 1..3
    /\ CallsMade(op) = SubSeq(Strategies, 1, Len(CallsMade(op)))
    /\ (Len(op.attempts) >= 1 /\ op.attempts[1].ok) =>
         (CallsMade(op) = <<"reply">> /\ op.pc = "resolved")

\* C32 witness: a reply whose direct reply and edit failed and whose
\* follow-up is awaited
C32_Witness ==
  \E op \in ReplyOps :
    /\ op.attempts = <<[call |-> "reply", ok |-> FALSE], [call |-> "editReply", ok |-> FALSE]>>
    /\ op.pc = "followUp"

----------------------------------------------------------------------------
(* Claims C31-C40: classification is total *)

EventKinds ==
  {"button", "selectMenu", "slashCommand", "messageCommand", "mention",
   "directMessage", "message"}

\* C33: every event of a non-bot author is classified into one of the seven
\* event-kinds: eventName never yields undefined, and the dispatcher never
\* takes its 'Ignoring interaction' branch.
C33_ClassificationTotal ==
  /\ (pout.done /\ pin \in ClassifyInputs) =>
       LET ui == UnifiedInteraction(pin.raw)
       IN  (ui.author.ok /\ ~IsFromBot(ui)) =>
             /\ pout.value # NoEventName
             /\ pout.value.kind \in EventKinds
             /\ "info:ignoring" \notin HandleInteraction(pin.raw, <<>>).log
  /\ \A i \in 1..Len(disp) : "info:ignoring" \notin disp[i].log

\* C33 witness: a guild message that is no command and does not address the
\* bot falls in the last case, message
C33_Witness ==
  /\ pout.done
  /\ pin \in ClassifyInputs
  /\ pin.raw.guild # NoGuild
  /\ pin.raw.content = <<"!", "p">>
  /\ pin.msgCmds = {}
  /\ pout.value = EventKey("message", <<>>)

----------------------------------------------------------------------------
(* Commands added while the bot runs *)

\* bot.addCommand(commandDefinition) called by the application after start():
\* the Command registers its listeners; _listCommands does not run again
AddCommandStarted ==
  /\ started
  /\ Len(commands) < Len(Definitions)
  /\ LET def == Definitions[Len(commands) + 1]
         c   == CommandOf(def)
     IN  /\ ~CheckThrows(def)
         /\ ~AddOptionsThrows(def)
         /\ commands' = Append(commands, c)
         /\ listeners' = listeners \o ListenersOf(c, Len(commands) + 1)
  /\ UNCHANGED <<messageCommands, started, disp, pin, pout>>

LiveEvents ==
  {e \in Events : e.id \in {"mc1", "mcb", "ms2"}}

\* the gateway client emits messageCreate
DeliverLive ==
  /\ started
  /\ \A i \in 1..Len(disp) : Terminal(disp[i])
  /\ \E raw \in LiveEvents :
       \E behs \in Behaviours(raw) :
         /\ disp' = <<MainListener(raw, behs)>>
         /\ listeners' = ListenersAfterEmit(listeners, disp'[1].key)
  /\ UNCHANGED <<commands, messageCommands, started, pin, pout>>

NextLive ==
  \/ AddCommand
  \/ Start
  \/ AddCommandStarted
  \/ DeliverLive
  \/ \E i \in 1..Len(disp) : \E t \in 1..Len(disp[i].tasks) : ReplySettles(i, t)
  \/ \E i \in 1..Len(disp) : \E t \in 1..Len(disp[i].tasks) : HandlerSettles(i, t)

SpecLive ==
  Init /\ [][NextLive]_vars

\* the names a listener is registered under as messageCommand:<name>
ListenedMessageCommands ==
  {listeners[j].key.id : j \in {l \in 1..Len(listeners) : listeners[l].key.kind = "messageCommand"}}

\* C34: after a start, a name is in the live message-command set if and only
\* if a listener is registered under messageCommand:<name>, and the message
\* made of the prefix and the name of a command that handles message commands,
\* added before or after the start, reaches a listener of that command.
C34_MessageCommandsLive ==
  started =>
    /\ messageCommands = ListenedMessageCommands
    /\ \A i \in 1..Len(disp) : \A k \in 1..Len(commands) :
         LET d == disp[i]
         IN  (/\ d.normalized
              /\ commands[k].isMessageCommand
              /\ NormalizedObject(d).content = Prefix \o commands[k].name) =>
               /\ d.key = EventKey("messageCommand", commands[k].name)
               /\ TasksOf(d, k) # {}

----------------------------------------------------------------------------
(* Claims C31-C40: the Actor of a supplied membership record *)

\* C35: when the raw event supplies a guild membership record for its author,
\* the Actor built for the event carries the roles of that record, also when
\* the member cache of the guild has no entry for the author; these are the
\* roles the authorization check reads.
C35_ActorCarriesSuppliedRoles ==
  (/\ pout.done
   /\ pin \in ActorInputs
   /\ pin.member.present
   /\ pin.user \in {NoUser, pin.member.userId}) =>
    /\ pout.value.ok
    /\ pout.value.member = pin.member
    /\ UserRoles(pout.value) = pin.member.roles

----------------------------------------------------------------------------
(* lib/UnifiedInteraction.js: followUp after reply *)

\* a handler that awaits interaction.reply and then calls interaction.followUp
FollowUpInputs ==
  [replyContent : {"pong", ""}, replyEphemeral : BOOLEAN,
   followContent : {"more", ""}, followEphemeral : BOOLEAN]

InitFollowUp ==
  /\ IdleRegistry
  /\ pin \in FollowUpInputs
  /\ pout = NotComputed

\* the handler calls interaction.reply({ content, ephemeral }) on a new
\* UnifiedInteraction, whose constructor set replied = false
CallReply ==
  /\ ~pout.done
  /\ pout' = [done |-> TRUE, replied |-> FALSE,
              first |-> NewReply("handler", pin.replyContent, pin.replyEphemeral),
              second |-> NoReply, direct |-> FALSE]
  /\ UNCHANGED <<commands, listeners, messageCommands, started, disp, pin>>

\* the platform call reply() awaits settles; reply() writes its local
\* repliedWith and leaves this.replied alone
FirstSettles ==
  /\ pout.done
  /\ ReplyInFlight(pout.first)
  /\ \E ok \in BOOLEAN : pout' = [pout EXCEPT !.first = ReplyResume(@, ok)]
  /\ UNCHANGED <<commands, listeners, messageCommands, started, disp, pin>>

\* the handler calls interaction.followUp({ content, ephemeral }) after its
\* reply() returned or threw: reply() again when this.replied is false, else
\* originalObject.followUp
CallFollowUp ==
  /\ pout.done
  /\ ~ReplyInFlight(pout.first)
  /\ pout.second = NoReply
  /\ pout' = [pout EXCEPT
                !.direct = pout.replied,
                !.second = IF pout.replied
                           THEN [NewReply("followUp", pin.followContent, pin.followEphemeral)
                                   EXCEPT !.pc = "followUp"]
                           ELSE NewReply("followUp", pin.followContent, pin.followEphemeral)]
  /\ UNCHANGED <<commands, listeners, messageCommands, started, disp, pin>>

\* originalObject.followUp called by followUp() itself settled
DirectResume(op, ok) ==
  [op EXCEPT !.attempts = Append(@, [call |-> op.pc, ok |-> ok]),
             !.pc = IF ok THEN "resolved" ELSE "threw"]

\* the platform call followUp() awaits settles
SecondSettles ==
  /\ pout.done
  /\ ReplyInFlight(pout.second)
  /\ \E ok \in BOOLEAN :
       pout' = [pout EXCEPT !.second = IF pout.direct THEN DirectResume(@, ok)
                                       ELSE ReplyResume(@, ok)]
  /\ UNCHANGED <<commands, listeners, messageCommands, started, disp, pin>>

NextFollowUp ==
  \/ CallReply
  \/ FirstSettles
  \/ CallFollowUp
  \/ SecondSettles

SpecFollowUp ==
  InitFollowUp /\ [][NextFollowUp]_vars

\* C36: after the reply operation completed successfully on a Normalized
\* Event, a later followUp on the same event sends through the follow-up
\* operation of the platform and does not attempt the direct reply again.
C36_FollowUpAfterReply ==
  (/\ pout.done
   /\ pin \in FollowUpInputs
   /\ pout.first.pc = "resolved"
   /\ pout.second # NoReply) =>
    /\ CallsMade(pout.second) = <<"followUp">>
    /\ \A n \in 1..Len(pout.second.attempts) : pout.second.attempts[n].call # "reply"

----------------------------------------------------------------------------
(* Claims C31-C40: order and termination of the dispatches *)

\* the listeners of dispatch d whose handler was started
Started(d) ==
  {t \in 1..Len(d.tasks) : d.tasks[t].h # "none"}

\* C37: for events that are not partial payloads, handlers are started in the
\* order the gateway delivers the events.  The dispatches are kept in the
\* order of delivery, and every handler of an event that is not partial is
\* started in the step that delivers the event: no later step starts one, so
\* the handlers of an event delivered before another were started before the
\* other's.
C37_HandlersStartInDeliveryOrder ==
  [][/\ Len(disp') >= Len(disp)
     /\ \A i \in 1..Len(disp) :
          /\ disp'[i].raw = disp[i].raw
          /\ ~disp[i].raw.partial =>
               /\ Len(disp'[i].tasks) = Len(disp[i].tasks)
               /\ Started(disp'[i]) = Started(disp[i])]_vars

\* C37 witness: two events that are not partial, delivered one after the
\* other while the handler of the first is still pending, both with a handler
\* started
C37_Witness ==
  /\ Len(disp) >= 2
  /\ ~disp[1].raw.partial
  /\ ~disp[2].raw.partial
  /\ \E t \in Started(disp[1]) : disp[1].tasks[t].h = "pending"
  /\ Started(disp[2]) # {}

\* interaction.fetch() of dispatch i rejects: the second branch of FetchSettles
FetchRejects(i) ==
  /\ disp[i].main = "fetch"
  /\ disp' = [disp EXCEPT ![i] =
                 Settled(disp[i].raw,
                         [threw |-> TRUE, err |-> "fetch", normalized |-> FALSE,
                          key |-> NoEventName, emitted |-> <<>>, tasks |-> <<>>,
                          log |-> {}])]
  /\ UNCHANGED <<commands, listeners, messageCommands, started, pin, pout>>

\* a step of dispatch i: a platform call or a handler it awaits returns.  The
\* two branches of FetchSettles are enabled together and either ends the wait,
\* so the fetch returns if and only if its rejection is not put off for ever.
Progress(i) ==
  \/ FetchRejects(i)
  \/ ErrorReplySettles(i)
  \/ \E t \in 1..Len(disp[i].tasks) : ReplySettles(i, t)
  \/ \E t \in 1..Len(disp[i].tasks) : HandlerSettles(i, t)

\* the events of the runs under fairness: a message without author, whose
\* dispatch fails, and a partial message, which is fetched and is then the
\* message command "!p"
ReturningEventIds ==
  {"anon", "part"}

\* the gateway emits messageCreate while earlier dispatches are in flight
DeliverReturning ==
  /\ started
  /\ Len(disp) < MaxEvents
  /\ \E raw \in {e \in Events : e.id \in ReturningEventIds} :
       \E behs \in Behaviours(raw) :
         /\ disp' = Append(disp, MainListener(raw, behs))
         /\ listeners' = ListenersAfterEmit(listeners, disp'[Len(disp')].key)
  /\ UNCHANGED <<commands, messageCommands, started, pin, pout>>

NextReturning ==
  \/ AddCommand
  \/ Start
  \/ DeliverReturning
  \/ \E i \in 1..Len(disp) : FetchSettles(i)
  \/ \E i \in 1..Len(disp) : ErrorReplySettles(i)
  \/ \E i \in 1..Len(disp) : \E t \in 1..Len(disp[i].tasks) : ReplySettles(i, t)
  \/ \E i \in 1..Len(disp) : \E t \in 1..Len(disp[i].tasks) : HandlerSettles(i, t)

\* the dispatches when every platform call and every handler that is awaited
\* returns in the end
SpecReturning ==
  Init /\ [][NextReturning]_vars /\ \A i \in 1..MaxEvents : WF_vars(i \in 1..Len(disp) /\ Progress(i))

\* C38: every dispatch that begins eventually reaches a terminal outcome,
\* provided every platform call and every handler it awaits returns, and it
\* does so whatever the other dispatches do.
C38_DispatchTerminates ==
  \A i \in 1..MaxEvents : [](Len(disp) >= i => <>(Len(disp) >= i /\ Terminal(disp[i])))

\* C38 witness: two dispatches in flight at once, the first one terminal while
\* the second still awaits a handler
C38_Witness ==
  /\ Len(disp) >= 2
  /\ Terminal(disp[1])
  /\ disp[1].tasks # <<>>
  /\ ~Terminal(disp[2])

----------------------------------------------------------------------------
(* utils/soundCommandBuilder.js and lib/SoundManager.js *)

\* the handlers of the command soundCommandBuilder returns, and the operation
\* of the SoundManager each one calls after getSoundManager
SoundHandlers ==
  {"commandHandler", "buttonsHandler", "selectMenusHandler"}

SoundOperation(handler) ==
  CASE handler = "commandHandler"  -> "menu"
    [] handler = "buttonsHandler"  -> "stop"
    [] OTHER                       -> "play"

\* the closure of one built command: created counts the SoundManagers
\* constructed, soundManager is the variable of the closure ("none": undefined;
\* "created": assigned, init() pending or failed; "initiated": init() returned),
\* handlers are the handlers in flight, calls the operations called so far with
\* what soundManager was at the call
InitSound ==
  /\ IdleRegistry
  /\ pin = NotComputed
  /\ pout = [done |-> TRUE, created |-> 0, soundManager |-> "none",
             handlers |-> <<>>, calls |-> {}]

\* a handler is called: getSoundManager runs up to its await.  With no
\* soundManager it assigns a new one and awaits its init(); otherwise it
\* returns at once and the handler awaits the resolved promise
InvokeSoundHandler ==
  /\ pout.done
  /\ Len(pout.handlers) < MaxEvents
  /\ \E h \in SoundHandlers :
       pout' = IF pout.soundManager = "none"
               THEN [pout EXCEPT !.created = @ + 1, !.soundManager = "created",
                                 !.handlers = Append(@, [handler |-> h, pc |-> "init"])]
               ELSE [pout EXCEPT !.handlers = Append(@, [handler |-> h, pc |-> "got"])]
  /\ UNCHANGED <<commands, listeners, messageCommands, started, disp, pin>>

\* soundManager.init() settles: joinVocalChannel resolved and isInitiated is
\* set, or it rejected and the handler that awaited it rejects
InitSettles(n) ==
  /\ pout.done
  /\ pout.handlers[n].pc = "init"
  /\ \/ pout' = [pout EXCEPT !.soundManager = "initiated", !.handlers[n].pc = "got"]
     \/ pout' = [pout EXCEPT !.handlers[n].pc = "rejected"]
  /\ UNCHANGED <<commands, listeners, messageCommands, started, disp, pin>>

\* the handler resumes after await getSoundManager(interaction) and calls
\* soundManager.menu(), stop() or play()
CallsOperation(n) ==
  /\ pout.done
  /\ pout.handlers[n].pc = "got"
  /\ pout' = [pout EXCEPT !.handlers[n].pc = "called",
                          !.calls = @ \cup {[operation |-> SoundOperation(pout.handlers[n].handler),
                                             soundManager |-> pout.soundManager]}]
  /\ UNCHANGED <<commands, listeners, messageCommands, started, disp, pin>>

NextSound ==
  \/ InvokeSoundHandler
  \/ \E n \in 1..Len(pout.handlers) : InitSettles(n)
  \/ \E n \in 1..Len(pout.handlers) : CallsOperation(n)

SpecSound ==
  InitSound /\ [][NextSound]_vars

\* C39: in a command built by soundCommandBuilder, for any interleaving of
\* concurrent dispatches of its command, buttons and select-menu handlers, at
\* most one SoundManager is created and none of its play, stop or menu
\* operations is called before its init has completed.
C39_OneInitiatedSoundManager ==
  /\ pout.created <= 1
  /\ \A c \in pout.calls : c.soundManager = "initiated"

----------------------------------------------------------------------------
(* utils/menusBuilders.js *)

\* the items handed to buildButtonsMenu: n items with the ids 1..n
MenuInputs ==
  [n : 0..MaxItems, prefix : {"playsound", "s"}, disabled : BOOLEAN]

ItemsOf(in) ==
  [k \in 1..in.n |-> [id |-> k, label |-> k, disabled |-> in.disabled]]

\* new ButtonBuilder().setCustomId(`${prefix}-${item.id}`)...
Button(prefix, item) ==
  [type |-> "button", customId |-> <<prefix, item.id>>, label |-> item.label,
   disabled |-> item.disabled]

\* the forEach of buildButtonsMenu and the push of the last row: rows are the
\* rows pushed, row the row being filled and rowCount its length
RECURSIVE ButtonRows(_, _, _, _, _)
ButtonRows(items, prefix, rows, row, rowCount) ==
  IF items = <<>>
  THEN IF rowCount > 0 THEN Append(rows, row) ELSE rows
  ELSE LET full == (rowCount = 5)
       IN  ButtonRows(Tail(items), prefix,
                      IF full THEN Append(rows, row) ELSE rows,
                      Append(IF full THEN <<>> ELSE row, Button(prefix, Head(items))),
                      (IF full THEN 0 ELSE rowCount) + 1)

\* buildSelectMenu(items, prefix): one row holding one select menu
BuildSelectMenu(items, prefix) ==
  << << [type |-> "selectMenu", customId |-> prefix,
         options |-> [k \in 1..Len(items) |-> [label |-> items[k].label, value |-> items[k].id]]] >> >>

\* buildButtonsMenu that fell back to the select menu from 25 items on
BuildButtonsMenu_From25(items, prefix) ==
  IF Len(items) >= 25 THEN BuildSelectMenu(items, prefix)
  ELSE ButtonRows(items, prefix, <<>>, <<>>, 0)

\* buildButtonsMenu(items, prefix)
BuildButtonsMenu(items, prefix) ==
  LET rows == ButtonRows(items, prefix, <<>>, <<>>, 0)
  IN  IF Len(rows) > 5 THEN BuildSelectMenu(items, prefix) ELSE rows

InitMenu ==
  /\ IdleRegistry
  /\ pin \in MenuInputs
  /\ pout = NotComputed

\* buildButtonsMenu(items, prefix)
BuildMenu ==
  /\ ~pout.done
  /\ pout' = [done |-> TRUE, value |-> BuildButtonsMenu(ItemsOf(pin), pin.prefix)]
  /\ UNCHANGED <<commands, listeners, messageCommands, started, disp, pin>>

NextMenu ==
  BuildMenu

SpecMenu ==
  InitMenu /\ [][NextMenu]_vars

\* the components of the rows, row after row
RECURSIVE Flatten(_)
Flatten(rows) ==
  IF rows = <<>> THEN <<>> ELSE Head(rows) \o Flatten(Tail(rows))

\* the rows a list of n items needs at 5 buttons a row
RowsNeeded(n) ==
  (n + 4) \div 5

\* C40: for every list of items, buildButtonsMenu returns action rows that
\* together hold every item exactly once in input order, with at most 5
\* buttons per row; when that would need more than 5 rows it returns instead a
\* single row holding one select menu with one option per item.
C40_ButtonsOrSelectMenu ==
  (pout.done /\ pin \in MenuInputs) =>
    LET items == ItemsOf(pin)
        rows  == pout.value
    IN  IF RowsNeeded(pin.n) <= 5
        THEN /\ Flatten(rows) = [k \in 1..pin.n |-> Button(pin.prefix, items[k])]
             /\ \A r \in 1..Len(rows) : Len(rows[r]) \in 1..5
             /\ Len(rows) = RowsNeeded(pin.n)
        ELSE /\ Len(rows) = 1
             /\ Len(rows[1]) = 1
             /\ rows[1][1].type = "selectMenu"
             /\ rows[1][1].customId = pin.prefix
             /\ [k \in 1..Len(rows[1][1].options) |-> rows[1][1].options[k].value]
                  = [k \in 1..pin.n |-> items[k].id]

\* C40 witness: 25 items fill 5 rows of 5 buttons
C40_Witness ==
  /\ pout.done
  /\ pin \in MenuInputs
  /\ pin.n = 25
  /\ Len(pout.value) = 5
  /\ \A r \in 1..5 : Len(pout.value[r]) = 5
  /\ pout.value[5][5].type = "button"

====
